---- MODULE Spec2Model ----
(***************************************************************************)
(* Position lifecycle, order execution and risk gating of the scalping     *)
(* engines of this repository.  Four program variants keep their own       *)
(* state: the multi-layer scalping bot (advanced_scalping_bot.py, prefix   *)
(* none), the webhook bot (tradingview_bot.py, prefix tv_), the condition  *)
(* search system (kis_auto_trading_system.py, prefix kis_) and the ATR     *)
(* system (ATR_main.py, prefix atr_).  The candle builder and the          *)
(* indicator functions (realtime_modules.py, advanced_scalping_realtime.py *)
(* and advanced_scalping_bot.py) are called on drawn inputs in variants of *)
(* their own.  Each variant has its own specification; the variables of    *)
(* the other variants stay at their initial value.                         *)
(*                                                                         *)
(* Prices are integers (won).  Rates of the source (0.03, 0.025, ...) are  *)
(* kept in permille and every comparison of a quotient with a rate is      *)
(* cross-multiplied, which agrees with the floating-point comparison of    *)
(* the source on all the prices used here.  Time is counted in ticks of    *)
(* TickSeconds seconds.                                                    *)
(***************************************************************************)
EXTENDS Integers, Sequences, FiniteSets, TLC

VARIABLES
    variant,        \* which program or component runs: "asb", "tv", "kis",
                    \* "atr", "cb", "avg", "sc", "entry", "universe",
                    \* "tracker", "ws", "shutdown" or "em"
    \* ---- advanced_scalping_bot.py ----
    now,            \* datetime.now(), in ticks
    feed,           \* the prices the market delivers in this run
    running,        \* AdvancedScalpingSystem.running
    current_price,  \* MarketData.current_price  (NoPrice: key absent)
    candles_5m,     \* MarketData.candles_5m, per code a sequence of candles
    positions,      \* OrderManager.positions, a dict code -> position
    position_keys,  \* insertion order of that dict
    performance,    \* PerformanceTracker
    pc,             \* where run_loop is: "sleep", "exits", "entry", "dead"
    todo,           \* codes of list(positions.keys()) still to visit
    signals,        \* entry signals the strategy still gives in this run
    cycle,          \* what the current poll cycle has done so far
    poll,           \* the last check_exit_signal call and what it saw
    buy_call,       \* the last execute_buy call
    sent,           \* the orders the last handler call sent to the broker
    fills,          \* number of sell orders the broker has accepted
    seen_peak,      \* per code, the highest price polled since the entry
    \* ---- tradingview_bot.py ----
    tv_positions,   \* PositionManager.positions, a dict code -> position
    tv_keys,        \* insertion order of that dict
    tv_pc,          \* where monitor_positions is: "sleep" or "monitor"
    tv_todo,        \* codes of get_active_positions() still to visit
    tv_sent,        \* the sell orders sent in the current monitoring cycle
    tv_signals,     \* buy signals the webhook still delivers
    \* ---- kis_auto_trading_system.py ----
    kis_now,        \* the clock, in cycles of check_interval seconds
    kis_price,      \* the market price per code
    kis_holdings,   \* the account at the broker, a dict code -> holding
    kis_positions,  \* AutoTradingSystem.positions, rebuilt from the balance
    kis_last_balance_check, \* AutoTradingSystem.last_balance_check
    kis_notice,     \* an execution notice is on its way
    kis_sent,       \* the orders sent in the last cycle
    kis_sold,       \* codes sold in full and not bought since
    \* ---- ATR_main.py ----
    atr_dry_run,    \* Config.DRY_RUN_MODE
    atr_positions,  \* PositionManager.positions, a dict code -> position
    atr_signals,    \* batches the scan loop still takes
    atr_batch,      \* codes of the current batch still to scan
    atr_sent,       \* the orders the last handler call sent
    atr_call,       \* the last handler call
    \* ---- realtime_modules.py, advanced_scalping_realtime.py ----
    cb_candles,             \* CandleBuilder.candles: code -> deque of candles
    cb_current_candles,     \* CandleBuilder.current_candles: code -> candle
    cb_candle_start_times,  \* CandleBuilder.candle_start_times
    cb_ticks,       \* the ticks that went into the open candle of each code
    cb_out,         \* the last call of add_tick and what it returned
    cb_left,        \* calls of add_tick still to come
    ta_prices,      \* the price list handed to TechnicalAnalysis
    candles_daily,  \* MarketData.candles_daily: code -> candles
    candles_15m,    \* MarketData.candles_15m: code -> candles
    sc_strength_history,    \* StrengthCalculator.strength_history
    ind_call,       \* the last call of an indicator and what it returned
    ind_left,       \* calls of StrengthCalculator.calculate still to come
    \* ---- class PerformanceTracker on its own ----
    pt_impl,        \* the file of the class: "asb" or "v3"
    pt,             \* the PerformanceTracker object
    pt_now,         \* datetime.now(), in ticks
    pt_call,        \* the last call of the tracker and what it returned
    pt_left,        \* calls of record_trade still to come
    \* ---- the streaming connections: ReconnectableWebSocket ("rm"),
    \*      WebSocketClient ("rt") and ExecutionNotifier ("atr") ----
    ws_impl,        \* the class that is run
    ws,             \* its fields and the position of its connection task
    ws_call,        \* the last call of subscribe by another task
    ws_left,        \* calls of subscribe by another task still to come
    \* ---- ATR_main.py: TradingSystem.run, shutdown and main ----
    sd,             \* the tasks of main and what an observer notes of them
    \* ---- the polling thread next to the feed thread ----
    rc,             \* check_entry_signal of the polling thread: its position
                    \* and the lists its two reads of the series returned
    \* ---- advanced_scalping_bot.py: the polls of one position ----
    em              \* the position, the clock in seconds and the prices
                    \* the polls have sampled since the entry

asbVars == <<now, feed, running, current_price, candles_5m, positions,
             position_keys, performance, pc, todo, signals, cycle, poll,
             buy_call, sent, fills, seen_peak>>

tvVars == <<tv_positions, tv_keys, tv_pc, tv_todo, tv_sent, tv_signals>>

kisVars == <<kis_now, kis_price, kis_holdings, kis_positions,
             kis_last_balance_check, kis_notice, kis_sent, kis_sold>>

atrVars == <<atr_dry_run, atr_positions, atr_signals, atr_batch, atr_sent,
             atr_call>>

cbVars == <<cb_candles, cb_current_candles, cb_candle_start_times, cb_ticks,
            cb_out, cb_left>>

taVars == <<ta_prices, candles_daily, candles_15m>>

indVars == <<taVars, sc_strength_history, ind_call, ind_left>>

ptVars == <<pt_impl, pt, pt_now, pt_call, pt_left>>

wsVars == <<ws_impl, ws, ws_call, ws_left>>

svcVars == <<ptVars, wsVars, sd, rc, em>>

rtVars == <<cbVars, indVars, svcVars>>

vars == <<variant, asbVars, tvVars, kisVars, atrVars, rtVars>>

(***************************************************************************)
(* Bounds of the model                                                     *)
(***************************************************************************)
CBMaxTicks == 4
PTMaxTrades == 3    \* calls of record_trade of a tracker run on its own
WSMaxCalls == 3     \* calls of subscribe by another task per run
WSMaxSends == 4     \* requests one connection takes before it is closed
WSMaxConnects == 2  \* connections that are made per run
MaxSeries == 3
SCMaxCalls == 2
MaxTime == 2        \* the clock stops after this many ticks
MaxSignals == 1     \* entry signals per run of the price scenarios
MaxCandles == 2     \* candles kept per code
\* Seconds per tick of the clock: one tick passes TIME_LOSS_HOURS and
\* COOLDOWN_SECONDS, two ticks pass TIME_PROFIT_HOURS.
TickSeconds == 5400
TVMaxSignals == 2   \* buy signals of the webhook per run
KisMaxTime == 4     \* poll cycles of the condition search system per run
ATRMaxSignals == 2  \* batches of the scan loop per run

Symbols == {"A"}
NoPrice == 0
FeedStops == {9740, 9900, 10000, 10100}
FeedTrail == {10000, 10780, 10781, 11000}
FeedGate == {9740, 10000}
EntryPrices == {10000}
CandleLows == {10200}

(***************************************************************************)
(* class Strategy                                                          *)
(***************************************************************************)
INITIAL_OFFSET == 2
RETRY_OFFSET == 5
BASE_PROFIT == 30
TRAILING_START == 50
TRAILING_OFFSET == 20
HARD_STOP == 25
TECH_STOP_OFFSET == 3
TIME_PROFIT_HOURS == 2
TIME_PROFIT_MIN == 10
TIME_LOSS_HOURS == 1
TIME_LOSS_MAX == -10
EMERGENCY_DROP == 15
CAPITAL_PER_POS == 20
DAILY_LOSS_LIMIT == 50
CONSECUTIVE_LOSS == 3
COOLDOWN_SECONDS == 3600
MIN_WIN_RATE == 600
MAX_DRAWDOWN == 100
MIN_TRADES_WIN_RATE == 10
START_CAPITAL == 10000000

(***************************************************************************)
(* Arithmetic helpers                                                      *)
(***************************************************************************)
\* (t1 - t0).seconds: the seconds field of a timedelta, which wraps at a day
Elapsed(t1, t0) == ((t1 - t0) * TickSeconds) % 86400

\* datetime.now().strftime('%Y-%m-%d'), as a day number
Date(t) == (t * TickSeconds) \div 86400

\* the ticks of one day, and the last tick of the clock of a tracker that
\* is run on its own
DayTicks == 86400 \div TickSeconds
PTMaxTime == DayTicks + 2

Dates == 0..Date(IF PTMaxTime > MaxTime + 1 THEN PTMaxTime ELSE MaxTime + 1)

\* (price - base) / base >= permille / 1000
RateGE(price, base, permille) == (price - base) * 1000 >= permille * base

\* (price - base) / base <= permille / 1000
RateLE(price, base, permille) == (price - base) * 1000 <= permille * base

\* (peak - price) / peak >= permille / 1000
DropGE(peak, price, permille) == (peak - price) * 1000 >= permille * peak

(***************************************************************************)
(* MarketData.check_exit_signal of advanced_scalping_bot.py: its exit      *)
(* conditions, each as the source tests it, and the function itself        *)
(***************************************************************************)
ExitResult(e, r, p) == [exit |-> e, reason |-> r, position |-> p]

\* the peak update inside `if profit_rate >= Strategy.TRAILING_START`
Trailed(position, cp) ==
    IF RateGE(cp, position.buy_price, TRAILING_START)
       /\ cp > position.peak_price
    THEN [position EXCEPT !.peak_price = cp, !.trailing_active = TRUE]
    ELSE position

TargetProfit(position, cp) == RateGE(cp, position.buy_price, BASE_PROFIT)

\* drop_from_peak uses the local peak_price, read before the update
TrailingStop(position, cp) ==
    /\ RateGE(cp, position.buy_price, TRAILING_START)
    /\ Trailed(position, cp).trailing_active
    /\ DropGE(position.peak_price, cp, TRAILING_OFFSET)

TimeProfit(position, cp, t) ==
    /\ Elapsed(t, position.entry_time) > TIME_PROFIT_HOURS * 3600
    /\ RateGE(cp, position.buy_price, TIME_PROFIT_MIN)

\* a hard stop at twice the loss
HardStopDoubled(position, cp) ==
    RateLE(cp, position.buy_price, -(2 * HARD_STOP))

HardStop(position, cp) == RateLE(cp, position.buy_price, -HARD_STOP)

\* current_price < candles[-2]['low'] * (1 - TECH_STOP_OFFSET)
TechnicalStop(cp, candles) ==
    /\ Len(candles) >= 2
    /\ cp * 1000 < candles[Len(candles) - 1].low * (1000 - TECH_STOP_OFFSET)

TimeLoss(position, cp, t) ==
    /\ Elapsed(t, position.entry_time) > TIME_LOSS_HOURS * 3600
    /\ RateLE(cp, position.buy_price, TIME_LOSS_MAX)

EmergencyExit(position, cp) ==
    /\ position.price_1m_ago # NoPrice
    /\ DropGE(position.price_1m_ago, cp, EMERGENCY_DROP)

\* check_exit_signal with the technical stop tested before the time profit
CheckExitSignalStopsFirst(position, cp, candles, t) ==
    LET trailed == Trailed(position, cp)
    IN  IF cp = NoPrice
        THEN ExitResult(FALSE, "", position)
        ELSE IF TargetProfit(position, cp)
        THEN ExitResult(TRUE, "target profit", position)
        ELSE IF TrailingStop(position, cp)
        THEN ExitResult(TRUE, "trailing stop", trailed)
        ELSE IF HardStop(position, cp)
        THEN ExitResult(TRUE, "hard stop", trailed)
        ELSE IF TechnicalStop(cp, candles)
        THEN ExitResult(TRUE, "technical stop", trailed)
        ELSE IF TimeProfit(position, cp, t)
        THEN ExitResult(TRUE, "time profit", trailed)
        ELSE IF TimeLoss(position, cp, t)
        THEN ExitResult(TRUE, "time loss", trailed)
        ELSE IF EmergencyExit(trailed, cp)
        THEN ExitResult(TRUE, "emergency exit", trailed)
        ELSE ExitResult(FALSE, "", [trailed EXCEPT !.price_1m_ago = cp])

CheckExitSignal(position, cp, candles, t) ==
    LET trailed == Trailed(position, cp)
    IN  IF cp = NoPrice
        THEN ExitResult(FALSE, "", position)
        ELSE IF TargetProfit(position, cp)
        THEN ExitResult(TRUE, "target profit", position)
        ELSE IF TrailingStop(position, cp)
        THEN ExitResult(TRUE, "trailing stop", trailed)
        ELSE IF TimeProfit(position, cp, t)
        THEN ExitResult(TRUE, "time profit", trailed)
        ELSE IF HardStop(position, cp)
        THEN ExitResult(TRUE, "hard stop", trailed)
        ELSE IF TechnicalStop(cp, candles)
        THEN ExitResult(TRUE, "technical stop", trailed)
        ELSE IF TimeLoss(position, cp, t)
        THEN ExitResult(TRUE, "time loss", trailed)
        ELSE IF EmergencyExit(trailed, cp)
        THEN ExitResult(TRUE, "emergency exit", trailed)
        ELSE ExitResult(FALSE, "", [trailed EXCEPT !.price_1m_ago = cp])

\* the names of the exit conditions that hold at price cp
ExitConditions(position, cp, candles, t) ==
    {r \in {"target profit"} : TargetProfit(position, cp)}
    \cup {r \in {"trailing stop"} : TrailingStop(position, cp)}
    \cup {r \in {"hard stop"} : HardStop(position, cp)}
    \cup {r \in {"technical stop"} : TechnicalStop(cp, candles)}
    \cup {r \in {"time profit"} : TimeProfit(position, cp, t)}
    \cup {r \in {"time loss"} : TimeLoss(position, cp, t)}
    \cup {r \in {"emergency exit"} : EmergencyExit(position, cp)}

(***************************************************************************)
(* MarketData.check_exit_signal of advanced_scalping_realtime.py: the      *)
(* trailing test reads position['peak_price'] after the update, and there  *)
(* is no technical stop and no emergency exit                              *)
(***************************************************************************)
TrailingStopRT(position, cp) ==
    /\ RateGE(cp, position.buy_price, TRAILING_START)
    /\ Trailed(position, cp).trailing_active
    /\ DropGE(Trailed(position, cp).peak_price, cp, TRAILING_OFFSET)

CheckExitSignalRT(position, cp, t) ==
    LET trailed == Trailed(position, cp)
    IN  IF cp = NoPrice
        THEN ExitResult(FALSE, "", position)
        ELSE IF TargetProfit(position, cp)
        THEN ExitResult(TRUE, "target profit", position)
        ELSE IF TrailingStopRT(position, cp)
        THEN ExitResult(TRUE, "trailing stop", trailed)
        ELSE IF HardStop(position, cp)
        THEN ExitResult(TRUE, "hard stop", trailed)
        ELSE IF TimeProfit(position, cp, t)
        THEN ExitResult(TRUE, "time profit", trailed)
        ELSE IF TimeLoss(position, cp, t)
        THEN ExitResult(TRUE, "time loss", trailed)
        ELSE ExitResult(FALSE, "", trailed)

ExitConditionsRT(position, cp, t) ==
    {r \in {"target profit"} : TargetProfit(position, cp)}
    \cup {r \in {"trailing stop"} : TrailingStopRT(position, cp)}
    \cup {r \in {"hard stop"} : HardStop(position, cp)}
    \cup {r \in {"time profit"} : TimeProfit(position, cp, t)}
    \cup {r \in {"time loss"} : TimeLoss(position, cp, t)}

(***************************************************************************)
(* class PerformanceTracker                                                *)
(***************************************************************************)
NoTime == -1
NoStats == [trades |-> 0, wins |-> 0, losses |-> 0, profit |-> 0]

PerformanceInit ==
    [current_capital |-> START_CAPITAL,
     peak_capital |-> START_CAPITAL,
     trades |-> <<>>,
     daily_stats |-> [d \in Dates |-> NoStats],
     consecutive_losses |-> 0,
     last_loss_time |-> NoTime]

RecordTrade(perf, trade, t) ==
    LET date == Date(t)
        stats == perf.daily_stats[date]
        profit == trade.profit
        win == profit > 0
        stats2 == [trades |-> stats.trades + 1,
                   wins |-> stats.wins + (IF win THEN 1 ELSE 0),
                   losses |-> stats.losses + (IF win THEN 0 ELSE 1),
                   profit |-> stats.profit + profit]
        capital == perf.current_capital + profit
    IN  [current_capital |-> capital,
         peak_capital |-> IF capital > perf.peak_capital
                          THEN capital ELSE perf.peak_capital,
         trades |-> Append(perf.trades, [code |-> trade.code,
                                         profit |-> trade.profit,
                                         reason |-> trade.reason,
                                         time |-> t]),
         daily_stats |-> [perf.daily_stats EXCEPT ![date] = stats2],
         consecutive_losses |-> IF win THEN 0 ELSE perf.consecutive_losses + 1,
         last_loss_time |-> IF win THEN perf.last_loss_time ELSE t]

Wins(trades) == Cardinality({i \in 1..Len(trades) : trades[i].profit > 0})

\* get_win_rate() < MIN_WIN_RATE / 1000
WinRateBelow(perf) ==
    IF Len(perf.trades) = 0
    THEN 0 < MIN_WIN_RATE
    ELSE Wins(perf.trades) * 1000 < MIN_WIN_RATE * Len(perf.trades)

\* get_mdd() > MAX_DRAWDOWN / 1000
MddAbove(perf) ==
    IF perf.peak_capital = 0
    THEN FALSE
    ELSE (perf.peak_capital - perf.current_capital) * 1000
             > MAX_DRAWDOWN * perf.peak_capital

ShouldStopTrading(perf, t) ==
    \/ /\ perf.consecutive_losses >= CONSECUTIVE_LOSS
       /\ perf.last_loss_time # NoTime
       /\ Elapsed(t, perf.last_loss_time) < COOLDOWN_SECONDS
    \/ perf.daily_stats[Date(t)].profit * 1000 < -(START_CAPITAL * DAILY_LOSS_LIMIT)
    \/ /\ Len(perf.trades) >= MIN_TRADES_WIN_RATE
       /\ WinRateBelow(perf)
    \/ MddAbove(perf)

NoPTCall ==
    [fn |-> "", profit |-> 0, time |-> 0, raised |-> FALSE, result |-> FALSE]

(***************************************************************************)
(* ReconnectableWebSocket.__init__, WebSocketClient.__init__ and           *)
(* ExecutionNotifier.__init__, with the position pc of the connection      *)
(* task, the state of the socket, and what an observer of the connection   *)
(* notes: the requests sent on the connection (sent), the registry at the  *)
(* time the connection was made (at_connect), what has happened since the  *)
(* last wait (since), what had happened when the latest attempt was made   *)
(* (attempt_after), the failed attempts in a row of the two clients        *)
(* (failed), the connections made (connects), whether the attempts ran out *)
(* (exhausted) and how the task stands (task).                             *)
(***************************************************************************)
WSInit ==
    [pc |-> "stopped", is_running |-> FALSE, has_ws |-> FALSE,
     open |-> FALSE, reconnect_count |-> 0, subscriptions |-> <<>>,
     i |-> 0, sent |-> <<>>, at_connect |-> <<>>, since |-> "start",
     attempt_after |-> "start", failed |-> 0, connects |-> 0,
     exhausted |-> FALSE,
     task |-> "not started"]

NoWSCall == [n |-> 0, pair |-> <<>>, pc |-> "", outcome |-> ""]

(***************************************************************************)
(* TradingSystem after initialize(): is_running, where run() stands (run:  *)
(* "test" at the test of its while loop or in a sleep before it, "batch"   *)
(* inside `for code in batch`, "returned"), the shutdown() task the signal *)
(* handler creates (task) and the shutdown() call of main's finally        *)
(* (main), each with the keys its loop has still to take (task_keys,       *)
(* main_keys) and the code whose close_position waits in telegram.send     *)
(* (task_at, main_at), the coroutine that has not reached an await since   *)
(* its last step (atomic), and the insertion order of                      *)
(* PositionManager.positions (order).  An observer notes whether shutdown  *)
(* has started (started), the positions open at that moment                *)
(* (open_at_start) and the codes a shutdown loop has taken since (taken).  *)
(* telegram is Config.TELEGRAM_ENABLED.                                    *)
(***************************************************************************)
SDInit ==
    [telegram |-> FALSE, is_running |-> TRUE, run |-> "test",
     task |-> "none", task_keys |-> <<>>, task_at |-> "",
     main |-> "run", main_keys |-> <<>>, main_at |-> "",
     atomic |-> "", order |-> <<>>,
     started |-> FALSE, open_at_start |-> {}, taken |-> {}]

(***************************************************************************)
(* The polling thread before its first call of check_entry_signal: pc is   *)
(* "idle" between two calls and "avg" between get_candles and              *)
(* get_recent_volume_avg; candles and avg_list are the lists the two reads *)
(* of the last call returned, read tells whether the call made both reads. *)
(***************************************************************************)
RCInit ==
    [pc |-> "idle", code |-> "", candles |-> <<>>, avg_list |-> <<>>,
     read |-> FALSE, ok |-> FALSE, reason |-> "", left |-> 0]

(***************************************************************************)
(* No position is polled: open tells whether the position is held, t is    *)
(* the clock of run_loop in seconds, samples the prices of the polls so    *)
(* far, one every PollSeconds, and last what the last poll saw and said.   *)
(***************************************************************************)
EMInit ==
    [open |-> FALSE, position |-> <<>>, t |-> 0, samples |-> <<>>,
     last |-> [cp |-> 0, exit |-> FALSE, reason |-> ""], left |-> 0]

(***************************************************************************)
(* Python dicts: a function on the keys present, with the insertion order  *)
(***************************************************************************)
EmptyDict == [c \in {} |-> NoPrice]

DictPut(d, k, v) == [c \in DOMAIN d \cup {k} |-> IF c = k THEN v ELSE d[c]]

DictDel(d, k) == [c \in DOMAIN d \ {k} |-> d[c]]

KeysPut(keys, k) ==
    IF \E i \in 1..Len(keys) : keys[i] = k THEN keys ELSE Append(keys, k)

KeysDel(keys, k) == SelectSeq(keys, LAMBDA x : x # k)

Max(a, b) == IF a >= b THEN a ELSE b

(***************************************************************************)
(* Records of what the handlers did                                        *)
(***************************************************************************)
Outcomes == {"ok", "reject", "raise"}

NoPoll == [code |-> "", price |-> NoPrice, buy_price |-> NoPrice, qty |-> 0,
           peak_before |-> NoPrice, conds |-> {}, exit |-> FALSE,
           reason |-> "", rt_conds |-> {}, rt_exit |-> FALSE,
           rt_reason |-> ""]

NoBuyCall == [code |-> "", price |-> NoPrice, held |-> {}, result |-> ""]

IdleCycle == [gated |-> FALSE, open |-> {}, checked |-> {},
              sells |-> [c \in Symbols |-> 0]]

Order(side, code, qty, result) ==
    [side |-> side, code |-> code, qty |-> qty, result |-> result]

\* the body OrderManager posts to order-cash: a limit order of _order carries
\* its price, the market order of market_sell the price 0
OrderCash(side, code, qty, price, result) ==
    [side |-> side, code |-> code, qty |-> qty, price |-> price,
     result |-> result]

\* the orders of `orders` the broker accepted
Accepted(orders, side) ==
    Cardinality({i \in 1..Len(orders) :
                    orders[i].side = side /\ orders[i].result = "ok"})

(***************************************************************************)
(* The runs of the environment that are explored: the prices the market    *)
(* delivers and the number of entry signals the strategy gives.  The last  *)
(* one gives enough signals for a losing streak of CONSECUTIVE_LOSS trades *)
(* followed by one more entry.                                             *)
(***************************************************************************)
Scenarios ==
    {[feed |-> FeedStops, signals |-> MaxSignals],
     [feed |-> FeedTrail, signals |-> MaxSignals],
     [feed |-> FeedGate, signals |-> CONSECUTIVE_LOSS + 1]}

(***************************************************************************)
(* AdvancedScalpingSystem.__init__                                         *)
(***************************************************************************)
StartASB ==
    /\ now = 0
    /\ running = FALSE
    /\ current_price = [c \in Symbols |-> NoPrice]
    /\ candles_5m = [c \in Symbols |-> <<>>]
    /\ positions = EmptyDict
    /\ position_keys = <<>>
    /\ performance = PerformanceInit
    /\ pc = "sleep"
    /\ todo = <<>>
    /\ cycle = IdleCycle
    /\ poll = NoPoll
    /\ buy_call = NoBuyCall
    /\ sent = <<>>
    /\ fills = 0
    /\ seen_peak = [c \in Symbols |-> NoPrice]

(***************************************************************************)
(* tradingview_bot.py: DEFAULT_CONFIG["trading"], with the keys            *)
(* monitor_positions reads.  Rates in permille.                            *)
(***************************************************************************)
tv_buy_amount == 1000000
tv_profit_target == 30
tv_trailing_stop == 20
tv_stop_loss == 25

TVSymbols == {"A", "B"}
TVFeed == {NoPrice, 9700, 10000, 10200, 10300, 10600, 620000}
TVEntryPrices == {10000, 600000}
TVResults == {"ok", "reject"}

(***************************************************************************)
(* kis_auto_trading_system.py: AutoTradingSystem.params, rates in permille *)
(***************************************************************************)
profit_rate == 20
loss_rate == -10
max_stocks == 5
check_interval == 10
BalanceCheckSeconds == 30

KisSymbols == {"A"}
KisFeed == {9900, 10000, 10200}
KisBuyable == {0, 10}
KisResults == {"ok", "reject"}
\* AutoTradingSystem.watch_list, as the condition search returns it
KisWatchList == KisSymbols

(***************************************************************************)
(* ATR_main.py: class Config.  Rates in permille.                          *)
(***************************************************************************)
Config_MAX_POSITIONS == 2
Config_RISK_PER_TRADE == 20
Config_STOP_LOSS_MIN == 970
Config_TRAILING_ACTIVATION == 25
Config_TRAILING_RATE_LOW == 985
Config_TRAILING_RATE_HIGH == 990
Config_TRAILING_THRESHOLD == 40
MinBalance == 100000

ATRSymbols == {"A", "B", "C"}
ATRBatch == <<"A", "B", "C">>
ATRFeed == {9600, 10000, 10300, 10400, 10500}
ATREntryPrices == {10000}
ATRBalances == {50000, 10000000}

(***************************************************************************)
(* The start states of the other programs                                  *)
(***************************************************************************)
\* tradingview_bot.py: PositionManager.__init__, with no position file
\* realtime_modules.py / advanced_scalping_realtime.py: CandleBuilder
timeframe == 5
DequeMaxLen == 2
CBSymbols == {"A", "B"}
CBTimes == {3, 4, 64}
CBPrices == {90, 100, 110}
CBVolumes == {2}
NoCandle == [time |-> NoTime, open |-> NoPrice, high |-> NoPrice,
             low |-> NoPrice, close |-> NoPrice, volume |-> 0]
NoCall == [fn |-> "", code |-> "", periods |-> 0, result |-> <<>>]
NoTick == [code |-> "", price |-> NoPrice, volume |-> 0, timestamp |-> NoTime,
           returned |-> NoCandle]

StartTV(n) ==
    /\ tv_positions = EmptyDict
    /\ tv_keys = <<>>
    /\ tv_pc = "sleep"
    /\ tv_todo = <<>>
    /\ tv_sent = <<>>
    /\ tv_signals = n

\* kis_auto_trading_system.py: AutoTradingSystem.__init__
StartKIS ==
    /\ kis_now = 0
    /\ kis_price \in [KisSymbols -> {10000}]
    /\ kis_holdings = EmptyDict
    /\ kis_positions = EmptyDict
    /\ kis_last_balance_check = NoTime
    /\ kis_notice = FALSE
    /\ kis_sent = {}
    /\ kis_sold = {}

\* ATR_main.py: PositionManager.__init__ and Config.DRY_RUN_MODE
StartATR(dry, n) ==
    /\ atr_dry_run = dry
    /\ atr_positions = EmptyDict
    /\ atr_signals = n
    /\ atr_batch = <<>>
    /\ atr_sent = <<>>
    /\ atr_call = [op |-> "", code |-> "", price |-> NoPrice]

\* CandleBuilder.__init__ and StrengthCalculator.__init__; n calls of
\* no tracker on its own
StartPT ==
    /\ pt_impl = ""
    /\ pt = PerformanceInit
    /\ pt_now = 0
    /\ pt_call = NoPTCall
    /\ pt_left = 0

\* no streaming connection
StartWS ==
    /\ ws_impl = ""
    /\ ws = WSInit
    /\ ws_call = NoWSCall
    /\ ws_left = 0

StartSvc ==
    /\ StartPT
    /\ StartWS
    /\ sd = SDInit
    /\ rc = RCInit
    /\ em = EMInit

\* add_tick and k calls of calculate are to come
StartRT(n, k) ==
    /\ cb_candles = EmptyDict
    /\ cb_current_candles = EmptyDict
    /\ cb_candle_start_times = EmptyDict
    /\ cb_ticks = [c \in CBSymbols |-> <<>>]
    /\ cb_out = NoTick
    /\ cb_left = n
    /\ ta_prices = <<>>
    /\ candles_daily = EmptyDict
    /\ candles_15m = EmptyDict
    /\ sc_strength_history = EmptyDict
    /\ ind_call = NoCall
    /\ ind_left = k
    /\ StartSvc

InitASB ==
    /\ variant = "asb"
    /\ \E s \in Scenarios : feed = s.feed /\ signals = s.signals
    /\ StartASB
    /\ StartTV(0)
    /\ StartKIS
    /\ StartATR(FALSE, 0)
    /\ StartRT(0, 0)

(***************************************************************************)
(* The environment: the clock, the price feed, the candle feed, the chat   *)
(* button.  It moves between two poll cycles.                              *)
(***************************************************************************)
Tick ==
    /\ variant = "asb"
    /\ pc = "sleep"
    /\ now < MaxTime
    /\ now' = now + 1
    /\ UNCHANGED <<tvVars, kisVars, atrVars, rtVars>>
    /\ UNCHANGED <<variant, feed, running, current_price, candles_5m,
                   positions, position_keys, performance, pc, todo, signals,
                   cycle, poll, buy_call, sent, fills, seen_peak>>

OnTick(code, price) ==
    /\ variant = "asb"
    /\ pc = "sleep"
    /\ current_price' = [current_price EXCEPT ![code] = price]
    /\ UNCHANGED <<tvVars, kisVars, atrVars, rtVars>>
    /\ UNCHANGED <<variant, now, feed, running, candles_5m, positions,
                   position_keys, performance, pc, todo, signals, cycle, poll,
                   buy_call, sent, fills, seen_peak>>

AddCandle(code, low) ==
    /\ variant = "asb"
    /\ pc = "sleep"
    /\ Len(candles_5m[code]) < MaxCandles
    /\ candles_5m' = [candles_5m EXCEPT ![code] = Append(@, [low |-> low])]
    /\ UNCHANGED <<tvVars, kisVars, atrVars, rtVars>>
    /\ UNCHANGED <<variant, now, feed, running, current_price, positions,
                   position_keys, performance, pc, todo, signals, cycle, poll,
                   buy_call, sent, fills, seen_peak>>

ButtonStart ==
    /\ variant = "asb"
    /\ pc = "sleep"
    /\ ~running
    /\ running' = TRUE
    /\ UNCHANGED <<tvVars, kisVars, atrVars, rtVars>>
    /\ UNCHANGED <<variant, now, feed, current_price, candles_5m, positions,
                   position_keys, performance, pc, todo, signals, cycle, poll,
                   buy_call, sent, fills, seen_peak>>

\* execute_sell recording the trade whatever market_sell returns
ExecuteSellAlwaysRecords(held, code, reason, outcome) ==
    LET pos == held[code]
        profit == (current_price[code] - pos.buy_price) * pos.qty
    IN  /\ sent' = <<OrderCash("sell", code, pos.qty, 0, outcome)>>
        /\ performance' = RecordTrade(performance,
               [code |-> code, profit |-> profit, reason |-> reason], now)
        /\ IF outcome = "ok"
           THEN /\ positions' = DictDel(held, code)
                /\ position_keys' = KeysDel(position_keys, code)
           ELSE /\ positions' = held
                /\ UNCHANGED position_keys

(***************************************************************************)
(* AdvancedScalpingSystem.execute_sell, after check_exit_signal has left   *)
(* the positions as `held`.  outcome is what OrderManager.market_sell      *)
(* does: "ok" (True), "reject" (False) or "raise" (requests raises).       *)
(***************************************************************************)
ExecuteSell(held, code, reason, outcome) ==
    LET pos == held[code]
        cp == current_price[code]
        profit == (cp - pos.buy_price) * pos.qty
    IN  /\ sent' = <<OrderCash("sell", code, pos.qty, 0, outcome)>>
        /\ IF outcome = "ok"
           THEN /\ performance' = RecordTrade(performance,
                       [code |-> code, profit |-> profit, reason |-> reason],
                       now)
                /\ positions' = DictDel(held, code)
                /\ position_keys' = KeysDel(position_keys, code)
           ELSE /\ positions' = held
                /\ UNCHANGED <<performance, position_keys>>

(***************************************************************************)
(* OrderManager.smart_buy: the orders it submits and its result.  r1, r2   *)
(* are what _order does on the first and on the second attempt: "ok"       *)
(* (True), "reject" (False: status not 200 or rt_cd not "0") or "raise"    *)
(* (requests.post raises, as it does when ORDER_TIMEOUT runs out).         *)
(***************************************************************************)
RECURSIVE Exponent(_)
\* the binary exponent e of n: 2^e <= n < 2^(e+1)
Exponent(n) == IF n < 2 THEN 0 ELSE 1 + Exponent(n \div 2)

\* int(current_price * (1 + offset)) in binary64, offset in permille.  The
\* product is not a whole number: int() cuts the fraction.  The product is
\* a whole number n: the double of 1 + 0.002 is above 1.002 by less than a
\* hundredth of an ulp and the product rounds to n; the double of 1 + 0.005
\* is below 1.005 by 0.48 ulp, the product is below n by 0.96 * price * 2^-53
\* and rounds to the double under n when that is more than half an ulp of n,
\* and int() then gives n - 1.
IntOfProduct(price, offset) ==
    LET exact == price * (1000 + offset)
        n == exact \div 1000
    IN  IF /\ exact % 1000 = 0
           /\ offset = RETRY_OFFSET
           /\ 24 * price > 25 * 2^Exponent(n)
        THEN n - 1
        ELSE n

\* a smart_buy that tries the second price whatever the first attempt did
SmartBuyOrdersAlwaysTwice(code, qty, cp, r1, r2) ==
    <<OrderCash("buy", code, qty, IntOfProduct(cp, INITIAL_OFFSET), r1),
      OrderCash("buy", code, qty, IntOfProduct(cp, RETRY_OFFSET), r2)>>

SmartBuyOrders(code, qty, cp, r1, r2) ==
    IF r1 = "reject"
    THEN <<OrderCash("buy", code, qty, IntOfProduct(cp, INITIAL_OFFSET), r1),
           OrderCash("buy", code, qty, IntOfProduct(cp, RETRY_OFFSET), r2)>>
    ELSE <<OrderCash("buy", code, qty, IntOfProduct(cp, INITIAL_OFFSET), r1)>>

SmartBuyResult(r1, r2) ==
    IF r1 = "ok" THEN "ok"
    ELSE IF r1 = "raise" THEN "raise"
    ELSE IF r2 = "ok" THEN "ok"
    ELSE IF r2 = "raise" THEN "raise"
    ELSE "reject"

(***************************************************************************)
(* AdvancedScalpingSystem.execute_buy                                      *)
(***************************************************************************)
BuyQty(price) == (START_CAPITAL * CAPITAL_PER_POS) \div (1000 * price)

\* a position born with its trailing stop armed
NewPositionArmed(price, qty, t) ==
    [buy_price |-> price, qty |-> qty, entry_time |-> t, peak_price |-> price,
     trailing_active |-> TRUE, price_1m_ago |-> NoPrice]

NewPosition(price, qty, t) ==
    [buy_price |-> price, qty |-> qty, entry_time |-> t, peak_price |-> price,
     trailing_active |-> FALSE, price_1m_ago |-> NoPrice]

ExecuteBuy(code, r1, r2) ==
    LET cp == current_price[code]
        qty == IF cp = NoPrice THEN 0 ELSE BuyQty(cp)
    IN  IF cp = NoPrice \/ qty = 0
        THEN /\ sent' = <<>>
             /\ UNCHANGED <<positions, position_keys>>
        ELSE /\ sent' = SmartBuyOrders(code, qty, cp, r1, r2)
             /\ IF SmartBuyResult(r1, r2) = "ok"
                THEN /\ positions' = DictPut(positions, code,
                                             NewPosition(cp, qty, now))
                     /\ position_keys' = KeysPut(position_keys, code)
                ELSE UNCHANGED <<positions, position_keys>>

(***************************************************************************)
(* AdvancedScalpingSystem.run_loop                                         *)
(***************************************************************************)
\* `if not self.running: time.sleep(10); continue`
RunLoopIdle ==
    /\ variant = "asb"
    /\ pc = "sleep"
    /\ ~running
    /\ cycle' = IdleCycle
    /\ poll' = NoPoll
    /\ buy_call' = NoBuyCall
    /\ sent' = <<>>
    /\ UNCHANGED <<tvVars, kisVars, atrVars, rtVars>>
    /\ UNCHANGED <<variant, now, feed, running, current_price, candles_5m,
                   positions, position_keys, performance, pc, todo, signals,
                   fills, seen_peak>>

\* `if should_stop: ...; time.sleep(60); continue`
RunLoopGated ==
    /\ variant = "asb"
    /\ pc = "sleep"
    /\ running
    /\ ShouldStopTrading(performance, now)
    /\ cycle' = [IdleCycle EXCEPT !.gated = TRUE, !.open = DOMAIN positions]
    /\ poll' = NoPoll
    /\ buy_call' = NoBuyCall
    /\ sent' = <<>>
    /\ UNCHANGED <<tvVars, kisVars, atrVars, rtVars>>
    /\ UNCHANGED <<variant, now, feed, running, current_price, candles_5m,
                   positions, position_keys, performance, pc, todo, signals,
                   fills, seen_peak>>

\* the cycle goes on to `for code in list(self.order_mgr.positions.keys())`
RunLoopBegin ==
    /\ variant = "asb"
    /\ pc = "sleep"
    /\ running
    /\ ~ShouldStopTrading(performance, now)
    /\ pc' = "exits"
    /\ todo' = position_keys
    /\ cycle' = [IdleCycle EXCEPT !.open = DOMAIN positions]
    /\ poll' = NoPoll
    /\ buy_call' = NoBuyCall
    /\ sent' = <<>>
    /\ UNCHANGED <<tvVars, kisVars, atrVars, rtVars>>
    /\ UNCHANGED <<variant, now, feed, running, current_price, candles_5m,
                   positions, position_keys, performance, signals, fills,
                   seen_peak>>

\* get_balance() raises: the handler of run_loop calls traceback.format_exc(),
\* and traceback is not imported: the NameError ends run_loop
RunLoopBalanceError ==
    /\ variant = "asb"
    /\ pc = "sleep"
    /\ running
    /\ ~ShouldStopTrading(performance, now)
    /\ pc' = "dead"
    /\ cycle' = [IdleCycle EXCEPT !.open = DOMAIN positions]
    /\ poll' = NoPoll
    /\ buy_call' = NoBuyCall
    /\ sent' = <<>>
    /\ UNCHANGED <<tvVars, kisVars, atrVars, rtVars>>
    /\ UNCHANGED <<variant, now, feed, running, current_price, candles_5m,
                   positions, position_keys, performance, todo, signals,
                   fills, seen_peak>>

\* one pass of the body of the for loop: check_exit_signal, then execute_sell
\* when it says so; an exception of execute_sell reaches the handler of
\* run_loop, whose NameError ends the loop
RunLoopExit(outcome) ==
    /\ variant = "asb"
    /\ pc = "exits"
    /\ todo # <<>>
    /\ LET code == Head(todo)
           pos == positions[code]
           cp == current_price[code]
           r == CheckExitSignal(pos, cp, candles_5m[code], now)
           rt == CheckExitSignalRT(pos, cp, now)
           held == [positions EXCEPT ![code] = r.position]
       IN  /\ poll' = [code |-> code, price |-> cp, buy_price |-> pos.buy_price,
                       qty |-> pos.qty, peak_before |-> seen_peak[code],
                       conds |-> ExitConditions(pos, cp, candles_5m[code], now),
                       exit |-> r.exit, reason |-> r.reason,
                       rt_conds |-> ExitConditionsRT(pos, cp, now),
                       rt_exit |-> rt.exit, rt_reason |-> rt.reason]
           /\ seen_peak' = [seen_peak EXCEPT ![code] = Max(@, cp)]
           /\ IF r.exit
              THEN /\ ExecuteSell(held, code, r.reason, outcome)
                   /\ pc' = IF outcome = "raise" THEN "dead" ELSE pc
              ELSE /\ outcome = "ok"
                   /\ positions' = held
                   /\ sent' = <<>>
                   /\ UNCHANGED <<performance, position_keys, pc>>
           /\ cycle' = [cycle EXCEPT !.checked = @ \cup {code},
                                     !.sells[code] = @ + Len(sent')]
    /\ fills' = fills + Accepted(sent', "sell")
    /\ todo' = Tail(todo)
    /\ buy_call' = NoBuyCall
    /\ UNCHANGED <<tvVars, kisVars, atrVars, rtVars>>
    /\ UNCHANGED <<variant, now, feed, running, current_price, candles_5m,
                   signals>>

\* the for loop is over; the place of the entry check (`# TODO` in run_loop)
RunLoopExitsDone ==
    /\ variant = "asb"
    /\ pc = "exits"
    /\ todo = <<>>
    /\ pc' = "entry"
    /\ UNCHANGED <<tvVars, kisVars, atrVars, rtVars>>
    /\ UNCHANGED <<variant, now, feed, running, current_price, candles_5m,
                   positions, position_keys, performance, todo, signals, cycle,
                   poll, buy_call, sent, fills, seen_peak>>

\* an entry signal for a code that is not held: execute_buy; an exception of
\* smart_buy ends the loop like one of execute_sell
RunLoopEntry(code, r1, r2) ==
    /\ variant = "asb"
    /\ pc = "entry"
    /\ signals > 0
    /\ code \notin DOMAIN positions
    /\ current_price[code] \in EntryPrices \cup {NoPrice}
    /\ signals' = signals - 1
    /\ ExecuteBuy(code, r1, r2)
    /\ buy_call' = [code |-> code, price |-> current_price[code],
                    held |-> DOMAIN positions,
                    result |-> IF sent' = <<>> THEN ""
                               ELSE SmartBuyResult(r1, r2)]
    /\ seen_peak' = [seen_peak EXCEPT ![code] = current_price[code]]
    /\ pc' = IF \E i \in 1..Len(sent') : sent'[i].result = "raise"
             THEN "dead" ELSE pc
    /\ poll' = NoPoll
    /\ UNCHANGED <<tvVars, kisVars, atrVars, rtVars>>
    /\ UNCHANGED <<variant, now, feed, running, current_price, candles_5m,
                   performance, todo, cycle, fills>>

\* `time.sleep(10)` at the end of the cycle
RunLoopSleep ==
    /\ variant = "asb"
    /\ pc = "entry"
    /\ pc' = "sleep"
    /\ UNCHANGED <<tvVars, kisVars, atrVars, rtVars>>
    /\ UNCHANGED <<variant, now, feed, running, current_price, candles_5m,
                   positions, position_keys, performance, todo, signals, cycle,
                   poll, buy_call, sent, fills, seen_peak>>

NextASB ==
    \/ Tick
    \/ \E code \in Symbols, price \in feed : OnTick(code, price)
    \/ \E code \in Symbols, low \in CandleLows : AddCandle(code, low)
    \/ ButtonStart
    \/ RunLoopIdle
    \/ RunLoopGated
    \/ RunLoopBegin
    \/ RunLoopBalanceError
    \/ \E outcome \in Outcomes : RunLoopExit(outcome)
    \/ RunLoopExitsDone
    \/ \E code \in Symbols, r1 \in Outcomes, r2 \in Outcomes :
           RunLoopEntry(code, r1, r2)
    \/ RunLoopSleep

SpecASB == InitASB /\ [][NextASB]_vars

(***************************************************************************)
(* tradingview_bot.py: the webhook bot                                     *)
(***************************************************************************)
InitTV ==
    /\ variant = "tv"
    /\ feed = {} /\ signals = 0 /\ StartASB
    /\ StartTV(TVMaxSignals)
    /\ StartKIS
    /\ StartATR(FALSE, 0)
    /\ StartRT(0, 0)

\* PositionManager.add_position; trailing_stop_price (absent in the source
\* until the first partial sell) is kept in thousandths of a won
TV_AddPosition(dict, code, buy_price, quantity) ==
    DictPut(dict, code,
            [buy_price |-> buy_price, quantity |-> quantity,
             status |-> "active", peak_price |-> buy_price,
             trailing_stop_price |-> NoPrice])

TV_HasPosition(dict, code) == code \in DOMAIN dict

TV_GetActivePositions(dict, keys) ==
    SelectSeq(keys, LAMBDA c : dict[c].status \in {"active", "partial_sold"})

TV_ClosePosition(pos) == [pos EXCEPT !.status = "closed"]

\* a sell order of monitor_positions: status is the status of the position
\* when the order is sent, why the block that sends it
TV_Sell(code, qty, result, status, why) ==
    [side |-> "sell", code |-> code, qty |-> qty, result |-> result,
     status |-> status, why |-> why]

(***************************************************************************)
(* One pass of the body of `for pos in positions` of monitor_positions at  *)
(* price cp.  pos is the dict stored in PositionManager.positions, so the  *)
(* updates of one block are read by the next.  r1, r2, r3 are the results  *)
(* of KISOrder.sell in the three blocks.                                   *)
(***************************************************************************)
TV_MonitorPass(pos, code, cp, r1, r2, r3) ==
    LET sell1 == /\ RateGE(cp, pos.buy_price, tv_profit_target)
                 /\ pos.status = "active"
        sell_quantity == pos.quantity \div 2
        pos1 == IF sell1 /\ r1 = "ok"
                THEN [pos EXCEPT !.quantity = @ - sell_quantity,
                                 !.status = "partial_sold",
                                 !.peak_price = cp,
                                 !.trailing_stop_price =
                                     cp * (1000 - tv_trailing_stop)]
                ELSE pos
        pos2a == IF pos1.status = "partial_sold" /\ cp > pos1.peak_price
                 THEN [pos1 EXCEPT !.peak_price = cp,
                                   !.trailing_stop_price =
                                       cp * (1000 - tv_trailing_stop)]
                 ELSE pos1
        sell2 == /\ pos2a.status = "partial_sold"
                 /\ cp * 1000 <= pos2a.trailing_stop_price
        pos2 == IF sell2 /\ r2 = "ok" THEN TV_ClosePosition(pos2a) ELSE pos2a
        sell3 == RateLE(cp, pos.buy_price, -tv_stop_loss)
        pos3 == IF sell3 /\ r3 = "ok" THEN TV_ClosePosition(pos2) ELSE pos2
    IN  [position |-> pos3,
         used |-> <<sell1, sell2, sell3>>,
         sent |-> (IF sell1
                   THEN <<TV_Sell(code, sell_quantity, r1, pos.status,
                                  "profit target")>>
                   ELSE <<>>)
                  \o (IF sell2
                      THEN <<TV_Sell(code, pos2a.quantity, r2, pos2a.status,
                                     "trailing stop")>>
                      ELSE <<>>)
                  \o (IF sell3
                      THEN <<TV_Sell(code, pos2.quantity, r3, pos2.status,
                                     "stop loss")>>
                      ELSE <<>>)]

\* TradingSystem.process_buy_signal with KISOrder.buy; price is what
\* get_current_price returns to buy, result what the order call gives
TVProcessBuySignal(code, price, result) ==
    /\ variant = "tv"
    /\ tv_pc = "sleep"
    /\ tv_signals > 0
    /\ tv_signals' = tv_signals - 1
    /\ LET quantity == IF price = NoPrice THEN 0 ELSE tv_buy_amount \div price
       IN  IF TV_HasPosition(tv_positions, code) \/ quantity = 0
           THEN /\ result = "ok"
                /\ UNCHANGED <<tv_positions, tv_keys>>
           ELSE IF result = "ok"
           THEN /\ tv_positions' = TV_AddPosition(tv_positions, code, price,
                                                  quantity)
                /\ tv_keys' = KeysPut(tv_keys, code)
           ELSE UNCHANGED <<tv_positions, tv_keys>>
    /\ UNCHANGED <<rtVars, variant, asbVars, tv_pc, tv_todo, tv_sent, kisVars, atrVars>>

\* monitor_positions: `positions = self.position_mgr.get_active_positions()`
TVMonitorBegin ==
    /\ variant = "tv"
    /\ tv_pc = "sleep"
    /\ tv_pc' = "monitor"
    /\ tv_todo' = TV_GetActivePositions(tv_positions, tv_keys)
    /\ tv_sent' = <<>>
    /\ UNCHANGED <<rtVars, variant, asbVars, tv_positions, tv_keys, tv_signals,
                   kisVars, atrVars>>

\* monitor_positions: the body of the for loop for the next position
TVMonitorPosition(price, r1, r2, r3) ==
    /\ variant = "tv"
    /\ tv_pc = "monitor"
    /\ tv_todo # <<>>
    /\ LET code == Head(tv_todo)
           pass == TV_MonitorPass(tv_positions[code], code, price, r1, r2, r3)
       IN  IF price = NoPrice
           THEN /\ r1 = "ok" /\ r2 = "ok" /\ r3 = "ok"
                /\ UNCHANGED <<tv_positions, tv_sent>>
           ELSE /\ pass.used[1] \/ r1 = "ok"
                /\ pass.used[2] \/ r2 = "ok"
                /\ pass.used[3] \/ r3 = "ok"
                /\ tv_positions' = [tv_positions EXCEPT ![code] = pass.position]
                /\ tv_sent' = tv_sent \o pass.sent
    /\ tv_todo' = Tail(tv_todo)
    /\ UNCHANGED <<rtVars, variant, asbVars, tv_keys, tv_pc, tv_signals, kisVars,
                   atrVars>>

\* monitor_positions: `time.sleep(check_interval)`
TVMonitorSleep ==
    /\ variant = "tv"
    /\ tv_pc = "monitor"
    /\ tv_todo = <<>>
    /\ tv_pc' = "sleep"
    /\ UNCHANGED <<rtVars, variant, asbVars, tv_positions, tv_keys, tv_todo, tv_sent,
                   tv_signals, kisVars, atrVars>>

NextTV ==
    \/ \E code \in TVSymbols, price \in TVEntryPrices \cup {NoPrice},
          result \in TVResults : TVProcessBuySignal(code, price, result)
    \/ TVMonitorBegin
    \/ \E price \in TVFeed, r1 \in TVResults, r2 \in TVResults,
          r3 \in TVResults : TVMonitorPosition(price, r1, r2, r3)
    \/ TVMonitorSleep

SpecTV == InitTV /\ [][NextTV]_vars

(***************************************************************************)
(* kis_auto_trading_system.py: the condition search system                 *)
(***************************************************************************)
InitKIS ==
    /\ variant = "kis"
    /\ feed = {} /\ signals = 0 /\ StartASB
    /\ StartTV(0)
    /\ StartKIS
    /\ StartATR(FALSE, 0)
    /\ StartRT(0, 0)

\* AutoTradingSystem.update_positions: the map is rebuilt from the balance
KIS_UpdatePositions(holdings, price) ==
    [c \in DOMAIN holdings |->
        [qty |-> holdings[c].qty, buy_price |-> holdings[c].buy_price,
         current_price |-> price[c]]]

KIS_CheckSellSignal(pos, cp) ==
    \/ RateGE(cp, pos.buy_price, profit_rate)
    \/ RateLE(cp, pos.buy_price, loss_rate)

KIS_CheckBuySignal(dict, code) ==
    /\ code \notin DOMAIN dict
    /\ Cardinality(DOMAIN dict) < max_stocks
    /\ code \in KisWatchList

\* the holding of c in the account after a buy of qty shares at price
KIS_Bought(holdings, c, qty, price) ==
    IF c \in DOMAIN holdings
    THEN [qty |-> holdings[c].qty + qty,
          buy_price |-> (holdings[c].qty * holdings[c].buy_price + qty * price)
                            \div (holdings[c].qty + qty)]
    ELSE [qty |-> qty, buy_price |-> price]

\* the market moves
KisPriceMove(code, price) ==
    /\ variant = "kis"
    /\ kis_price[code] # price
    /\ kis_price' = [kis_price EXCEPT ![code] = price]
    /\ UNCHANGED <<rtVars, variant, asbVars, tvVars, atrVars, kis_now, kis_holdings,
                   kis_positions, kis_last_balance_check, kis_notice,
                   kis_sent, kis_sold>>

\* AutoTradingSystem.handle_execution_notice: an execution notice arrives
\* and the positions are rebuilt; bal tells whether get_balance succeeds
KisExecutionNotice(bal) ==
    /\ variant = "kis"
    /\ kis_notice
    /\ kis_notice' = FALSE
    /\ IF bal
       THEN /\ kis_positions' = KIS_UpdatePositions(kis_holdings, kis_price)
            /\ kis_last_balance_check' = kis_now
       ELSE UNCHANGED <<kis_positions, kis_last_balance_check>>
    /\ UNCHANGED <<rtVars, variant, asbVars, tvVars, atrVars, kis_now, kis_price,
                   kis_holdings, kis_sent, kis_sold>>

(***************************************************************************)
(* One cycle of AutoTradingSystem.run_trading_loop: the refresh of the     *)
(* positions when it is due, execute_sell for every position with a sell   *)
(* signal, execute_buy for every watched code with a buy signal, and the   *)
(* sleep.  A successful market order is filled at once in the account; the *)
(* broker rejects a sell of shares the account does not hold.              *)
(***************************************************************************)
KisRunTradingLoop(bal, sell_out, buy_out, buyable) ==
    /\ variant = "kis"
    /\ kis_now < KisMaxTime
    /\ LET due == \/ kis_last_balance_check = NoTime
                  \/ ((kis_now - kis_last_balance_check) * check_interval)
                         % 86400 >= BalanceCheckSeconds
           positions1 == IF due /\ bal
                         THEN KIS_UpdatePositions(kis_holdings, kis_price)
                         ELSE kis_positions
           sells == {c \in DOMAIN positions1 :
                        /\ positions1[c].current_price > 0
                        /\ KIS_CheckSellSignal(positions1[c],
                                               positions1[c].current_price)}
           buys == {c \in KisWatchList :
                       KIS_CheckBuySignal(positions1, c) /\ buyable[c] > 0}
           sold == {c \in sells : sell_out[c] = "ok"}
           bought == {c \in buys : buy_out[c] = "ok"}
           after_sells == [c \in DOMAIN kis_holdings \ sold |-> kis_holdings[c]]
       IN  /\ due \/ bal
           /\ \A c \in KisSymbols :
                  /\ (c \notin sells \/ c \notin DOMAIN kis_holdings)
                         => sell_out[c] = "reject"
                  /\ c \notin buys => buy_out[c] = "reject"
                  /\ (c \notin KisWatchList \/ ~KIS_CheckBuySignal(positions1, c))
                         => buyable[c] = 0
           /\ kis_positions' = positions1
           /\ kis_last_balance_check' =
                  IF due /\ bal THEN kis_now ELSE kis_last_balance_check
           /\ kis_sent' =
                  {[side |-> "sell", code |-> c, qty |-> positions1[c].qty,
                    result |-> sell_out[c], resold |-> c \in kis_sold] :
                       c \in sells}
                  \cup {[side |-> "buy", code |-> c, qty |-> buyable[c],
                         result |-> buy_out[c], resold |-> FALSE] : c \in buys}
           /\ kis_holdings' =
                  [c \in DOMAIN after_sells \cup bought |->
                      IF c \in bought
                      THEN KIS_Bought(after_sells, c, buyable[c], kis_price[c])
                      ELSE after_sells[c]]
           /\ kis_notice' = (kis_notice \/ sold # {} \/ bought # {})
           /\ kis_sold' = (kis_sold \cup sold) \ bought
    /\ kis_now' = kis_now + 1
    /\ UNCHANGED <<rtVars, variant, asbVars, tvVars, atrVars, kis_price>>

NextKIS ==
    \/ \E code \in KisSymbols, price \in KisFeed : KisPriceMove(code, price)
    \/ \E bal \in BOOLEAN : KisExecutionNotice(bal)
    \/ \E bal \in BOOLEAN, sell_out \in [KisSymbols -> KisResults],
          buy_out \in [KisSymbols -> KisResults],
          buyable \in [KisSymbols -> KisBuyable] :
              KisRunTradingLoop(bal, sell_out, buy_out, buyable)

SpecKIS == InitKIS /\ [][NextKIS]_vars

(***************************************************************************)
(* ATR_main.py: PositionManager and the scan loop of TradingSystem.run.    *)
(* stop_loss is kept in thousandths of a won.                              *)
(***************************************************************************)
InitATR ==
    /\ variant = "atr"
    /\ feed = {} /\ signals = 0 /\ StartASB
    /\ StartTV(0)
    /\ StartKIS
    /\ \E dry \in BOOLEAN : StartATR(dry, ATRMaxSignals)
    /\ StartRT(0, 0)

ATR_CanOpenPosition(dict) ==
    Cardinality(DOMAIN dict) < Config_MAX_POSITIONS

ATR_HasPosition(dict, code) == code \in DOMAIN dict

\* check_strategy: stop_loss = current_price * Config.STOP_LOSS_MIN
ATR_CheckStrategy(price) == price * Config_STOP_LOSS_MIN

\* the quantity open_position orders
ATR_Qty(balance, entry_price, stop_loss) ==
    LET qty == (balance * Config_RISK_PER_TRADE)
                   \div (entry_price * 1000 - stop_loss)
        cap == (balance * 3) \div (10 * entry_price)
    IN  Max(1, IF qty <= cap THEN qty ELSE cap)

ATR_NewPosition(entry_price, qty, stop_loss) ==
    [entry_price |-> entry_price, quantity |-> qty, remaining_qty |-> qty,
     stop_loss |-> stop_loss, highest_price |-> entry_price]

ATR_Call(op, code, price) == [op |-> op, code |-> code, price |-> price]

\* PositionManager.open_position; result is what api_client.buy_order does
ATR_OpenPosition(code, entry_price, stop_loss, balance, result) ==
    LET qty == ATR_Qty(balance, entry_price, stop_loss)
    IN  IF \/ balance < MinBalance
           \/ entry_price * 1000 - stop_loss <= 0
           \/ atr_dry_run
        THEN /\ atr_sent' = <<>>
             /\ UNCHANGED atr_positions
        ELSE /\ atr_sent' = <<Order("buy", code, qty, result)>>
             /\ IF result = "ok"
                THEN atr_positions' =
                         DictPut(atr_positions, code,
                                 ATR_NewPosition(entry_price, qty, stop_loss))
                ELSE UNCHANGED atr_positions

\* PositionManager.close_position; result is what api_client.sell_order does
ATR_ClosePosition(held, code, result) ==
    IF code \notin DOMAIN held
    THEN /\ atr_sent' = <<>>
         /\ atr_positions' = held
    ELSE IF atr_dry_run
    THEN /\ atr_sent' = <<>>
         /\ atr_positions' = DictDel(held, code)
    ELSE /\ atr_sent' = <<Order("sell", code, held[code].remaining_qty,
                                result)>>
         /\ atr_positions' = IF result = "ok" THEN DictDel(held, code) ELSE held

\* does _monitor_position close the position at curr_price ?
ATR_StopLossHit(pos, curr_price) == curr_price * 1000 <= pos.stop_loss

ATR_TrailingHit(pos, curr_price) ==
    LET trailing_rate ==
            IF RateGE(curr_price, pos.entry_price, Config_TRAILING_THRESHOLD)
            THEN Config_TRAILING_RATE_HIGH
            ELSE Config_TRAILING_RATE_LOW
    IN  /\ RateGE(curr_price, pos.entry_price, Config_TRAILING_ACTIVATION)
        /\ curr_price * 1000 <= pos.highest_price * trailing_rate

\* TradingSystem.run: `if not can_open_position(): ...; continue`, else the
\* next batch of codes is taken
ATRScanBegin ==
    /\ variant = "atr"
    /\ atr_batch = <<>>
    /\ atr_signals > 0
    /\ ATR_CanOpenPosition(atr_positions)
    /\ atr_batch' = ATRBatch
    /\ atr_signals' = atr_signals - 1
    /\ atr_call' = ATR_Call("scan", "", NoPrice)
    /\ atr_sent' = <<>>
    /\ UNCHANGED <<rtVars, variant, asbVars, tvVars, kisVars, atr_dry_run,
                   atr_positions>>

\* TradingSystem.run: the body of `for code in batch` for the next code;
\* surge is what is_volume_surge says
ATRScanCode(price, surge, balance, result) ==
    /\ variant = "atr"
    /\ atr_batch # <<>>
    /\ LET code == Head(atr_batch)
       IN  IF ATR_HasPosition(atr_positions, code) \/ ~surge
           THEN /\ (\A b \in ATRBalances : balance >= b) /\ result = "ok"
                /\ atr_call' = ATR_Call("skip", code, NoPrice)
                /\ atr_sent' = <<>>
                /\ UNCHANGED atr_positions
           ELSE /\ (balance < MinBalance \/ atr_dry_run) => result = "ok"
                /\ atr_call' = ATR_Call("open", code, price)
                /\ ATR_OpenPosition(code, price, ATR_CheckStrategy(price),
                                    balance, result)
    /\ atr_batch' = Tail(atr_batch)
    /\ UNCHANGED <<rtVars, variant, asbVars, tvVars, kisVars, atr_dry_run, atr_signals>>

\* PositionManager._monitor_position: one pass of its loop for code
ATRMonitorPosition(code, curr_price, result) ==
    /\ variant = "atr"
    /\ code \in DOMAIN atr_positions
    /\ LET pos == atr_positions[code]
           raised == IF curr_price > pos.highest_price
                     THEN [pos EXCEPT !.highest_price = curr_price]
                     ELSE pos
           held == [atr_positions EXCEPT ![code] = raised]
       IN  IF ATR_StopLossHit(raised, curr_price)
              \/ ATR_TrailingHit(raised, curr_price)
           THEN ATR_ClosePosition(held, code, result)
           ELSE /\ result = "ok"
                /\ atr_sent' = <<>>
                /\ atr_positions' = held
    /\ atr_call' = ATR_Call("monitor", code, curr_price)
    /\ UNCHANGED <<rtVars, variant, asbVars, tvVars, kisVars, atr_dry_run, atr_signals,
                   atr_batch>>

NextATR ==
    \/ ATRScanBegin
    \/ \E price \in ATREntryPrices, surge \in BOOLEAN, balance \in ATRBalances,
          result \in Outcomes : ATRScanCode(price, surge, balance, result)
    \/ \E code \in ATRSymbols, curr_price \in ATRFeed, result \in Outcomes :
           ATRMonitorPosition(code, curr_price, result)

SpecATR == InitATR /\ [][NextATR]_vars

(***************************************************************************)
(* ATR_main.py with the execution notifier (USE_EXECUTION_NOTIFIER, on by  *)
(* default): a notice of a buy fill of qty shares at price arrives for     *)
(* code.  Notices come only for orders that were sent, hence not in        *)
(* dry-run mode; a notice of a sell fill writes nothing.                   *)
(***************************************************************************)
ATRFillPrices == {10050}
ATRFillQtys == {100}

\* ExecutionNotifier._update_position
ATR_UpdatePosition(dict, code, qty, price) ==
    IF code \in DOMAIN dict
    THEN [dict EXCEPT ![code] = [@ EXCEPT !.quantity = qty,
                                          !.entry_price = price,
                                          !.highest_price = price]]
    ELSE dict

\* ExecutionNotifier._handle_message for a buy fill (SELN_BYOV_CLS "02",
\* RCTF_QTY > 0)
ATRExecutionNotice(code, qty, price) ==
    /\ variant = "atr"
    /\ ~atr_dry_run
    /\ code \in DOMAIN atr_positions
    /\ atr_positions' = ATR_UpdatePosition(atr_positions, code, qty, price)
    /\ atr_call' = ATR_Call("notice", code, price)
    /\ atr_sent' = <<>>
    /\ UNCHANGED <<rtVars, variant, asbVars, tvVars, kisVars, atr_dry_run,
                   atr_signals, atr_batch>>

SpecNotice ==
    InitATR /\ [][\/ NextATR
                  \/ \E code \in ATRSymbols, qty \in ATRFillQtys,
                        price \in ATRFillPrices :
                         ATRExecutionNotice(code, qty, price)]_vars

(***************************************************************************)
(* The two programs whose positions are born in a buy call of their own    *)
(***************************************************************************)
SpecOpen == (InitASB \/ InitATR) /\ [][NextASB \/ NextATR]_vars

(***************************************************************************)
(* CandleBuilder of realtime_modules.py; the class of the same name in     *)
(* advanced_scalping_realtime.py has the same add_tick, get_candles and    *)
(* get_recent_volume_avg.  A timestamp is a time of one day in minutes:    *)
(* add_tick drops its seconds and keeps its date and hour.                 *)
(***************************************************************************)
InitCB ==
    /\ variant = "cb"
    /\ feed = {} /\ signals = 0 /\ StartASB
    /\ StartTV(0)
    /\ StartKIS
    /\ StartATR(FALSE, 0)
    /\ StartRT(CBMaxTicks, 0)

Min(a, b) == IF a <= b THEN a ELSE b

\* candle_start: timestamp.replace(minute=(minute // timeframe) * timeframe)
CandleStart(timestamp) ==
    (timestamp \div 60) * 60 + ((timestamp % 60) \div timeframe) * timeframe

\* a candle start that forgets the hour of the timestamp
CandleStartOfMinute(timestamp) ==
    ((timestamp % 60) \div timeframe) * timeframe

\* a deque whose append overwrites its newest element
DequeOverwrite(deque, x) ==
    IF deque = <<>> THEN <<x>> ELSE [deque EXCEPT ![Len(deque)] = x]

\* deque(maxlen=...).append
DequeAppend(deque, x) ==
    IF Len(deque) = DequeMaxLen THEN Append(Tail(deque), x)
    ELSE Append(deque, x)

\* an update that moves the close only
UpdateCandleCloseOnly(candle, price, volume) ==
    [candle EXCEPT !.close = price]

\* an update that keeps the volume of the latest tick only
UpdateCandleLastVolume(candle, price, volume) ==
    [candle EXCEPT !.high = Max(@, price),
                   !.low = Min(@, price),
                   !.close = price,
                   !.volume = volume]

\* the else branch of add_tick
UpdateCandle(candle, price, volume) ==
    [candle EXCEPT !.high = Max(@, price),
                   !.low = Min(@, price),
                   !.close = price,
                   !.volume = @ + volume]

\* CandleBuilder.add_tick
AddTick(code, price, volume, timestamp) ==
    /\ variant = "cb"
    /\ cb_left > 0
    /\ cb_left' = cb_left - 1
    /\ LET candle_start == CandleStart(timestamp)
           deque == IF code \in DOMAIN cb_candles THEN cb_candles[code]
                    ELSE <<>>
           tick == [price |-> price, volume |-> volume,
                    timestamp |-> timestamp]
       IN  IF \/ code \notin DOMAIN cb_current_candles
              \/ cb_candle_start_times[code] # candle_start
           THEN LET completed_candle ==
                        IF code \in DOMAIN cb_current_candles
                        THEN cb_current_candles[code] ELSE NoCandle
                IN  /\ cb_candles' = DictPut(cb_candles, code,
                           IF completed_candle # NoCandle
                           THEN DequeAppend(deque, completed_candle)
                           ELSE deque)
                    /\ cb_current_candles' = DictPut(cb_current_candles, code,
                           [time |-> candle_start, open |-> price,
                            high |-> price, low |-> price, close |-> price,
                            volume |-> volume])
                    /\ cb_candle_start_times' =
                           DictPut(cb_candle_start_times, code, candle_start)
                    /\ cb_ticks' = [cb_ticks EXCEPT ![code] = <<tick>>]
                    /\ cb_out' = [code |-> code, price |-> price,
                                  volume |-> volume, timestamp |-> timestamp,
                                  returned |-> completed_candle]
           ELSE /\ cb_candles' = DictPut(cb_candles, code, deque)
                /\ cb_current_candles' =
                       [cb_current_candles EXCEPT ![code] =
                            UpdateCandle(@, price, volume)]
                /\ cb_ticks' = [cb_ticks EXCEPT ![code] = Append(@, tick)]
                /\ cb_out' = [code |-> code, price |-> price,
                              volume |-> volume, timestamp |-> timestamp,
                              returned |-> NoCandle]
                /\ UNCHANGED cb_candle_start_times
    /\ UNCHANGED <<variant, asbVars, tvVars, kisVars, atrVars, svcVars, indVars>>

NextCB ==
    \E code \in CBSymbols, price \in CBPrices, volume \in CBVolumes,
       timestamp \in CBTimes : AddTick(code, price, volume, timestamp)

SpecCB == InitCB /\ [][NextCB]_vars

(***************************************************************************)
(* The averages: CandleBuilder.get_candles and get_recent_volume_avg of    *)
(* realtime_modules.py (the same code in advanced_scalping_realtime.py)    *)
(* and TechnicalAnalysis.calculate_ma of advanced_scalping_bot.py.  A      *)
(* float quotient is kept as the pair of its numerator and denominator.    *)
(***************************************************************************)
AvgValues == {2, 4, 9}
AvgPeriods == 1..(MaxSeries + 1)

SeqsUpTo(S, n) == UNION {[1..k -> S] : k \in 0..n}

\* a finalized candle of the i-th period whose volume is v
FlatCandle(i, v) ==
    [time |-> i * timeframe, open |-> 100, high |-> 100, low |-> 100,
     close |-> 100, volume |-> v]

\* a builder that has finalized the candles of a list of volumes for "A"
\* and has seen no tick of "B"
InitAvg ==
    /\ variant = "avg"
    /\ feed = {} /\ signals = 0 /\ StartASB
    /\ StartTV(0)
    /\ StartKIS
    /\ StartATR(FALSE, 0)
    /\ \E volumes \in SeqsUpTo(AvgValues, MaxSeries) :
           LET open == FlatCandle(Len(volumes) + 1, 2)
           IN  /\ cb_candles = [c \in {"A"} |->
                      [i \in 1..Len(volumes) |-> FlatCandle(i, volumes[i])]]
               /\ cb_current_candles = [c \in {"A"} |-> open]
               /\ cb_candle_start_times = [c \in {"A"} |-> open.time]
    /\ cb_ticks = [c \in CBSymbols |-> <<>>]
    /\ cb_out = NoTick
    /\ cb_left = 0
    /\ ta_prices \in SeqsUpTo(AvgValues, MaxSeries)
    /\ candles_daily = EmptyDict
    /\ candles_15m = EmptyDict
    /\ sc_strength_history = EmptyDict
    /\ ind_call = NoCall
    /\ ind_left = 0
    /\ StartSvc

Value(num, den) == [raised |-> FALSE, num |-> num, den |-> den]
Raised == [raised |-> TRUE, num |-> 0, den |-> 1]

\* num / den; ZeroDivisionError when den is 0
Quotient(num, den) == IF den = 0 THEN Raised ELSE Value(num, den)

\* the sum of list[lo..hi], by halves
RECURSIVE SumRange(_, _, _)
SumRange(list, lo, hi) ==
    IF lo > hi THEN 0
    ELSE IF lo = hi THEN list[lo]
    ELSE LET mid == (lo + hi) \div 2
         IN  SumRange(list, lo, mid) + SumRange(list, mid + 1, hi)

\* sum(list)
Sum(list) == SumRange(list, 1, Len(list))

\* list[:count]
FirstN(list, count) == SubSeq(list, 1, Min(count, Len(list)))

\* list[-count:] for a positive count
LastN(list, count) == SubSeq(list, Max(1, Len(list) - count + 1), Len(list))

\* CandleBuilder.get_candles; count 0 stands for None
GetCandles(candles, code, count) ==
    IF code \notin DOMAIN candles THEN <<>>
    ELSE IF count # 0 THEN LastN(candles[code], count)
    ELSE candles[code]

\* CandleBuilder.get_recent_volume_avg
GetRecentVolumeAvg(candles, code, periods) ==
    LET list == GetCandles(candles, code, periods)
    IN  IF Len(list) < periods THEN Value(0, 1)
        ELSE Quotient(Sum([i \in 1..Len(list) |-> list[i].volume]),
                      Len(list))

\* a moving average over the oldest prices of the list
CalculateMaOfOldest(prices, period) ==
    IF Len(prices) < period THEN Value(0, 1)
    ELSE Quotient(Sum(FirstN(prices, period)), period)

\* TechnicalAnalysis.calculate_ma
CalculateMa(prices, period) ==
    IF Len(prices) < period THEN Value(0, 1)
    ELSE Quotient(Sum(LastN(prices, period)), period)

IndCall(fn, code, periods, result) ==
    [fn |-> fn, code |-> code, periods |-> periods, result |-> result]

CallGetRecentVolumeAvg(code, periods) ==
    /\ variant = "avg"
    /\ ind_call' = IndCall("get_recent_volume_avg", code, periods,
                           GetRecentVolumeAvg(cb_candles, code, periods))
    /\ UNCHANGED <<variant, asbVars, tvVars, kisVars, atrVars, svcVars, cbVars,
                   taVars, sc_strength_history, ind_left>>

CallCalculateMa(period) ==
    /\ variant = "avg"
    /\ ind_call' = IndCall("calculate_ma", "", period,
                           CalculateMa(ta_prices, period))
    /\ UNCHANGED <<variant, asbVars, tvVars, kisVars, atrVars, svcVars, cbVars,
                   taVars, sc_strength_history, ind_left>>

NextAvg ==
    \/ \E code \in CBSymbols, periods \in AvgPeriods :
           CallGetRecentVolumeAvg(code, periods)
    \/ \E period \in AvgPeriods : CallCalculateMa(period)

SpecAvg == InitAvg /\ [][NextAvg]_vars

(***************************************************************************)
(* StrengthCalculator of realtime_modules.py and of                        *)
(* advanced_scalping_realtime.py.  asking_data is kept as the two lists of *)
(* the level quantities ASKP_RSQN1.. and BIDP_RSQN1..; a level that is     *)
(* absent, None, empty or 0 counts 0.  A quantity int() cannot read makes  *)
(* calculate return 100 from its except branch; such data is not drawn.    *)
(***************************************************************************)
BookLevels == 10
SCSymbols == {"A"}
SCLevels ==
    {<<>>, <<0>>, <<1>>, <<3>>, <<1, 3>>, [i \in 1..(BookLevels + 1) |-> 1]}

InitSC ==
    /\ variant = "sc"
    /\ feed = {} /\ signals = 0 /\ StartASB
    /\ StartTV(0)
    /\ StartKIS
    /\ StartATR(FALSE, 0)
    /\ StartRT(0, SCMaxCalls)

\* sum(int(asking_data.get(key + str(i), 0) or 0) for i in range(1, 11))
LevelSum(levels) ==
    Sum([i \in 1..BookLevels |-> IF i \in DOMAIN levels THEN levels[i] ELSE 0])

\* a strength that is the plain quotient whatever the ask volume is
StrengthOfQuotient(bid_volume, ask_volume) ==
    IF ask_volume = 0 THEN Value(0, 1)
    ELSE Value(bid_volume * 100, ask_volume)

\* the strength of realtime_modules.py
Strength(bid_volume, ask_volume) ==
    IF ask_volume = 0 THEN Value(200, 1)
    ELSE IF bid_volume = 0 THEN Value(0, 1)
    ELSE Value(bid_volume * 100, ask_volume)

\* the strength of advanced_scalping_realtime.py: no branch for a bid
\* volume of 0, whose quotient is 0.0
StrengthRT(bid_volume, ask_volume) ==
    IF ask_volume = 0 THEN Value(200, 1)
    ELSE Value(bid_volume * 100, ask_volume)

\* StrengthCalculator.calculate
Calculate(code, asking_data, realtime) ==
    /\ variant = "sc"
    /\ ind_left > 0
    /\ ind_left' = ind_left - 1
    /\ LET ask_volume == LevelSum(asking_data.ask)
           bid_volume == LevelSum(asking_data.bid)
           strength == IF realtime THEN StrengthRT(bid_volume, ask_volume)
                       ELSE Strength(bid_volume, ask_volume)
           history == IF code \in DOMAIN sc_strength_history
                      THEN sc_strength_history[code] ELSE <<>>
       IN  /\ sc_strength_history' = DictPut(sc_strength_history, code,
                  DequeAppend(history, [strength |-> strength,
                                        bid_vol |-> bid_volume,
                                        ask_vol |-> ask_volume]))
           /\ ind_call' = [fn |-> "calculate", code |-> code,
                           asking_data |-> asking_data, result |-> strength]
    /\ UNCHANGED <<variant, asbVars, tvVars, kisVars, atrVars, svcVars, cbVars,
                   taVars>>

NextSC ==
    \E code \in SCSymbols, ask \in SCLevels, bid \in SCLevels,
       realtime \in BOOLEAN :
        Calculate(code, [ask |-> ask, bid |-> bid], realtime)

SpecSC == InitSC /\ [][NextSC]_vars

(***************************************************************************)
(* MarketData.check_entry_signal of advanced_scalping_bot.py and of        *)
(* advanced_scalping_realtime.py, with check_consecutive_strength and      *)
(* calculate_bollinger.  Float comparisons are made on the cross-          *)
(* multiplied integers; the drawn candles keep them away from rounding.    *)
(***************************************************************************)
MinCandles == 25
VOLUME_SPIKE == 2500
VolumePeriods == 20
MIN_STRENGTH_3BARS == 150
StrengthPeriods == 3
MIN_CANDLE_BODY == 600
MIN_GREEN_CANDLES == 2
BreakoutWindow == 24
BollingerPeriod == 20
BollingerStdDev == 2
BandTolerancePct == 102

Candle(i, open, high, low, close, volume) ==
    [time |-> i * timeframe, open |-> open, high |-> high, low |-> low,
     close |-> close, volume |-> volume]

\* the shapes of the latest candle: a small and a large breakout of body
\* ratio 0.8, a long upper wick, a candle that closes under its open
EntryShapes ==
    {[open |-> 98, high |-> 102, low |-> 97, close |-> 102],
     [open |-> 102, high |-> 112, low |-> 102, close |-> 110],
     [open |-> 100, high |-> 110, low |-> 100, close |-> 102],
     [open |-> 102, high |-> 102, low |-> 100, close |-> 100]}
EntryVolumes == {40, 50, 54, 60, 72}
EntryCounts == {MinCandles - 1, MinCandles, MinCandles + 1}

\* a series of n candles: flat candles of volume 20 at 100; the candle 20
\* before the latest has the volume old_volume; spike is how many candles
\* before the latest a high of 120 stands (0: none); of the two candles
\* before the latest the last `greens` rise from 100 to 101; the latest has
\* the shape and the volume drawn
EntrySeries(n, old_volume, spike, greens, shape, volume) ==
    [i \in 1..n |->
        IF i = n
        THEN Candle(i, shape.open, shape.high, shape.low, shape.close, volume)
        ELSE IF i >= n - greens THEN Candle(i, 100, 101, 100, 101, 20)
        ELSE IF spike > 0 /\ i = n - spike
        THEN Candle(i, 100, 120, 100, 100, 20)
        ELSE IF i = n - VolumePeriods
        THEN Candle(i, 100, 100, 100, 100, old_volume)
        ELSE FlatCandle(i, 20)]

\* the entry of strength_history that calculate makes of a snapshot
StrengthEntry(bid_volume, ask_volume) ==
    [strength |-> Strength(bid_volume, ask_volume), bid_vol |-> bid_volume,
     ask_vol |-> ask_volume]

\* strength histories: 160, 170, 180; 140, 170, 180; 170, 180
EntryHistories ==
    {<<StrengthEntry(8, 5), StrengthEntry(17, 10), StrengthEntry(9, 5)>>,
     <<StrengthEntry(7, 5), StrengthEntry(17, 10), StrengthEntry(9, 5)>>,
     <<StrengthEntry(17, 10), StrengthEntry(9, 5)>>}

InitEntry ==
    /\ variant = "entry"
    /\ feed = {} /\ signals = 0 /\ StartASB
    /\ StartTV(0)
    /\ StartKIS
    /\ StartATR(FALSE, 0)
    /\ \E n \in EntryCounts, old_volume \in {20, 100},
          spike \in {0, BreakoutWindow - 1, BreakoutWindow},
          greens \in 0..2, shape \in EntryShapes, volume \in EntryVolumes :
           LET open == FlatCandle(n + 1, 2)
           IN  /\ cb_candles = [c \in {"A"} |->
                      EntrySeries(n, old_volume, spike, greens, shape, volume)]
               /\ cb_current_candles = [c \in {"A"} |-> open]
               /\ cb_candle_start_times = [c \in {"A"} |-> open.time]
    /\ cb_ticks = [c \in CBSymbols |-> <<>>]
    /\ cb_out = NoTick
    /\ cb_left = 0
    /\ ta_prices = <<>>
    /\ candles_daily = EmptyDict
    /\ candles_15m = EmptyDict
    /\ \/ sc_strength_history = EmptyDict
       \/ \E history \in EntryHistories :
              sc_strength_history = [c \in {"A"} |-> history]
    /\ ind_call = NoCall
    /\ ind_left = 0
    /\ StartSvc

EntryResult(ok, reason) == [ok |-> ok, reason |-> reason]

Green(c) == c.close > c.open

GreenCount(list) == Cardinality({i \in 1..Len(list) : Green(list[i])})

RECURSIVE MaxOf(_)
MaxOf(list) ==
    IF Len(list) = 1 THEN list[1] ELSE Max(list[1], MaxOf(Tail(list)))

\* list[:-1]
ButLast(list) == SubSeq(list, 1, Len(list) - 1)

\* current['volume'] < avg_volume * Strategy.VOLUME_SPIKE
VolumeShort(current, avg_volume) ==
    current.volume * avg_volume.den * 1000 < avg_volume.num * VOLUME_SPIKE

\* a body floor of nine tenths of the range
LongWickUnderNineTenths(current) ==
    LET body == IF current.close >= current.open
                THEN current.close - current.open
                ELSE current.open - current.close
        total == current.high - current.low
    IN  total > 0 /\ body * 10 < total * 9

\* total > 0 and body / total < Strategy.MIN_CANDLE_BODY
LongWick(current) ==
    LET body == IF current.close >= current.open
                THEN current.close - current.open
                ELSE current.open - current.close
        total == current.high - current.low
    IN  total > 0 /\ body * 1000 < total * MIN_CANDLE_BODY

\* StrengthCalculator.check_consecutive_strength
CheckConsecutiveStrength(strength_history, code, min_strength, periods) ==
    IF code \notin DOMAIN strength_history THEN FALSE
    ELSE IF Len(strength_history[code]) < periods THEN FALSE
    ELSE LET recent == LastN(strength_history[code], periods)
         IN  \A i \in 1..Len(recent) :
                 recent[i].strength.num >= min_strength * recent[i].strength.den

\* calculate_bollinger and `upper > 0 and current['close'] > upper * 1.02`:
\* with S the sum and Q the sum of squares of the last 20 closes, ma is
\* S / 20, std is sqrt(20 Q - S^2) / 20, and close > 1.02 (ma + 2 std) is
\* 2000 close - 102 S > 204 sqrt(20 Q - S^2)
Overheated(prices, close) ==
    IF Len(prices) < BollingerPeriod THEN FALSE
    ELSE LET recent == LastN(prices, BollingerPeriod)
             S == Sum(recent)
             Q == Sum([i \in 1..Len(recent) |-> recent[i] * recent[i]])
             D == BollingerPeriod * Q - S * S
             x == 100 * BollingerPeriod * close - BandTolerancePct * S
             k == BandTolerancePct * BollingerStdDev
         IN  /\ S > 0 \/ D > 0
             /\ x > 0
             /\ x * x > k * k * D

\* check_entry_signal of advanced_scalping_bot.py
CheckEntrySignal(candles_5m_of_code) ==
    LET list == candles_5m_of_code
        n == Len(list)
    IN  IF n < MinCandles THEN EntryResult(FALSE, "insufficient data")
        ELSE
        LET current == list[n]
            volumes == [i \in 1..VolumePeriods |->
                           list[n - VolumePeriods - 1 + i].volume]
            avg_volume == Quotient(Sum(volumes), Len(volumes))
            prices_2h == LastN([i \in 1..n |-> list[i].high], BreakoutWindow)
            high_2h == IF Len(prices_2h) > 1 THEN MaxOf(ButLast(prices_2h))
                       ELSE 0
            prices == [i \in 1..n |-> list[i].close]
        IN  IF VolumeShort(current, avg_volume)
            THEN EntryResult(FALSE, "volume")
            ELSE IF current.close <= current.open
            THEN EntryResult(FALSE, "red candle")
            ELSE IF LongWick(current)
            THEN EntryResult(FALSE, "long wick")
            ELSE IF GreenCount(LastN(list, 3)) < MIN_GREEN_CANDLES
            THEN EntryResult(FALSE, "few green candles")
            ELSE IF current.close <= high_2h
            THEN EntryResult(FALSE, "no breakout")
            ELSE IF Overheated(prices, current.close)
            THEN EntryResult(FALSE, "overheated")
            ELSE EntryResult(TRUE, "entry signal")

\* check_entry_signal of advanced_scalping_realtime.py
CheckEntrySignalRT(candles, strength_history, code) ==
    LET list == GetCandles(candles, code, 0)
        n == Len(list)
    IN  IF n < MinCandles THEN EntryResult(FALSE, "insufficient data")
        ELSE
        LET current == list[n]
            avg_volume == GetRecentVolumeAvg(candles, code, VolumePeriods)
            recent_highs == LastN([i \in 1..n |-> list[i].high],
                                  BreakoutWindow)
        IN  IF VolumeShort(current, avg_volume)
            THEN EntryResult(FALSE, "volume")
            ELSE IF ~CheckConsecutiveStrength(strength_history, code,
                                              MIN_STRENGTH_3BARS,
                                              StrengthPeriods)
            THEN EntryResult(FALSE, "strength")
            ELSE IF current.close <= current.open
            THEN EntryResult(FALSE, "red candle")
            ELSE IF LongWick(current)
            THEN EntryResult(FALSE, "long wick")
            ELSE IF GreenCount(LastN(list, 3)) < MIN_GREEN_CANDLES
            THEN EntryResult(FALSE, "few green candles")
            ELSE IF current.close <= MaxOf(ButLast(recent_highs))
            THEN EntryResult(FALSE, "no breakout")
            ELSE EntryResult(TRUE, "entry")

\* one call of check_entry_signal; both programs are handed the series of
\* the candle builder
CallCheckEntrySignal(code, realtime) ==
    /\ variant = "entry"
    /\ ind_call' =
           [fn |-> "check_entry_signal", code |-> code, realtime |-> realtime,
            result |-> IF realtime
                       THEN CheckEntrySignalRT(cb_candles, sc_strength_history,
                                               code)
                       ELSE CheckEntrySignal(GetCandles(cb_candles, code, 0))]
    /\ UNCHANGED <<variant, asbVars, tvVars, kisVars, atrVars, svcVars, cbVars,
                   taVars, sc_strength_history, ind_left>>

NextEntry ==
    \E code \in CBSymbols, realtime \in BOOLEAN :
        CallCheckEntrySignal(code, realtime)

SpecEntry == InitEntry /\ [][NextEntry]_vars

(***************************************************************************)
(* MarketData.check_universe_filter of advanced_scalping_bot.py, with      *)
(* get_prices, calculate_rsi and calculate_adx.  market_cap and            *)
(* daily_volume are counted in units of 100,000,000 won.  add_candle keeps *)
(* the 15-minute candles of a code in a deque of Deque15mMaxLen candles;   *)
(* the longer series drawn here are those a caller can only provide by     *)
(* filling candles_15m itself.                                             *)
(***************************************************************************)
MIN_MARKET_CAP == 500
MIN_DAILY_VOLUME == 50
MIN_PRICE == 5000
MAX_PRICE == 500000
DailyNeeded == 120
AdxWindow == 20
AdxPeriod == 14
AdxFloor == 25
ShortMa15m == 50
LongMa15m == 200
RsiPeriod == 14
RsiLow == 40
RsiHigh == 70
Deque15mMaxLen == 100

UFMarketCaps == {MIN_MARKET_CAP - 1, MIN_MARKET_CAP}
UFDailyVolumes == {MIN_DAILY_VOLUME - 1, MIN_DAILY_VOLUME}
UFPrices == {MIN_PRICE - 1, MIN_PRICE, MAX_PRICE, MAX_PRICE + 1}
UFDailyCounts == {DailyNeeded - 1, DailyNeeded}
UFDailyKinds == {"rising wide", "rising narrow", "flat wide"}
UF15mCounts == {Deque15mMaxLen, LongMa15m - 1, LongMa15m, LongMa15m + 6}
UF15mKinds == {"zigzag", "rising", "flat", "dip"}

\* n daily candles: closes that rise by one a day or stay, with a daily
\* range of 60 or of 2
DailySeries(n, kind) ==
    [i \in 1..n |->
        LET close == IF kind = "flat wide" THEN 150 ELSE 100 + i
            half == IF kind = "rising narrow" THEN 1 ELSE 30
        IN  Candle(i, close, close + half, close - half, close, 1)]

\* n 15-minute candles: closes that go up 3 and down 2 in turn, closes that
\* rise by one a bar, closes that stay, and closes that stay until they go
\* down 10 and up 21 on the last two bars
Close15m(n, kind, i) ==
    CASE kind = "zigzag" -> 100 + (i \div 2) + 3 * (i % 2)
      [] kind = "rising" -> 100 + i
      [] kind = "flat" -> 100
      [] kind = "dip" ->
             IF i <= n - 2 THEN 1000 ELSE IF i = n - 1 THEN 990 ELSE 1011

Series15m(n, kind) ==
    [i \in 1..n |->
        LET close == Close15m(n, kind, i)
        IN  Candle(i, close, close, close, close, 1)]

InitUniverse ==
    /\ variant = "universe"
    /\ feed = {} /\ signals = 0 /\ StartASB
    /\ StartTV(0)
    /\ StartKIS
    /\ StartATR(FALSE, 0)
    /\ cb_candles = EmptyDict
    /\ cb_current_candles = EmptyDict
    /\ cb_candle_start_times = EmptyDict
    /\ cb_ticks = [c \in CBSymbols |-> <<>>]
    /\ cb_out = NoTick
    /\ cb_left = 0
    /\ ta_prices = <<>>
    /\ \E n \in UFDailyCounts, kind \in UFDailyKinds :
           candles_daily = [c \in {"A"} |-> DailySeries(n, kind)]
    /\ \E n \in UF15mCounts, kind \in UF15mKinds :
           candles_15m = [c \in {"A"} |-> Series15m(n, kind)]
    /\ sc_strength_history = EmptyDict
    /\ ind_call = NoCall
    /\ ind_left = 0
    /\ StartSvc

\* MarketData.get_prices
GetPrices(candles, code) ==
    IF code \in DOMAIN candles
    THEN [i \in 1..Len(candles[code]) |-> candles[code][i].close]
    ELSE <<>>

\* a > b for two float quotients
Greater(a, b) == a.num * b.den > b.num * a.den

Abs(x) == IF x < 0 THEN 0 - x ELSE x

\* the sum of the gains (sign = 1) or of the losses (sign = -1) of the
\* latest `period` steps of prices
StepSum(prices, period, sign) ==
    LET deltas == [i \in 1..(Len(prices) - 1) |-> prices[i + 1] - prices[i]]
        taken == [i \in 1..Len(deltas) |->
                     IF sign * deltas[i] > 0 THEN sign * deltas[i] ELSE 0]
    IN  Sum(LastN(taken, period))

\* TechnicalAnalysis.calculate_rsi, as a quotient: 100 - 100 / (1 + rs)
\* is 100 * gain / (gain + loss)
CalculateRsi(prices) ==
    IF Len(prices) < RsiPeriod + 1 THEN Value(50, 1)
    ELSE LET gain == StepSum(prices, RsiPeriod, 1)
             loss == StepSum(prices, RsiPeriod, -1)
         IN  IF loss = 0 THEN Value(100, 1)
             ELSE Value(100 * gain, gain + loss)

\* TechnicalAnalysis.calculate_adx, as a quotient before its cap at 100
CalculateAdx(highs, lows, closes) ==
    IF Len(highs) < AdxPeriod + 1 THEN Value(0, 1)
    ELSE LET tr(i) == Max(highs[i] - lows[i],
                          Max(Abs(highs[i] - closes[i - 1]),
                              Abs(lows[i] - closes[i - 1])))
             tr_sum == Sum([i \in 1..(Len(highs) - 1) |-> tr(i + 1)])
             last == closes[Len(closes)]
         IN  IF last > 0 THEN Value(100 * tr_sum, Len(highs) * last)
             ELSE Value(0, 1)

\* the trend strength test of check_universe_filter: adx < 25 rejects
AdxRejects(candles_daily_of_code) ==
    /\ Len(candles_daily_of_code) >= AdxWindow
    /\ LET candles == LastN(candles_daily_of_code, AdxWindow)
           adx == CalculateAdx([i \in 1..Len(candles) |-> candles[i].high],
                               [i \in 1..Len(candles) |-> candles[i].low],
                               [i \in 1..Len(candles) |-> candles[i].close])
       IN  Greater(Value(AdxFloor, 1), adx)

\* the cross test of check_universe_filter: ma50 <= ma200 rejects
CrossRejects(prices_15m) ==
    ~Greater(CalculateMa(prices_15m, ShortMa15m),
             CalculateMa(prices_15m, LongMa15m))

CheckUniverseFilter(daily, m15, code, market_cap, daily_volume, price) ==
    LET daily_prices == GetPrices(daily, code)
        prices_15m == GetPrices(m15, code)
        rsi == CalculateRsi(prices_15m)
    IN  CASE market_cap < MIN_MARKET_CAP -> FALSE
          [] daily_volume < MIN_DAILY_VOLUME -> FALSE
          [] price < MIN_PRICE \/ price > MAX_PRICE -> FALSE
          [] Len(daily_prices) < DailyNeeded -> FALSE
          [] OTHER ->
             IF ~(/\ Greater(CalculateMa(daily_prices, 20),
                             CalculateMa(daily_prices, 60))
                  /\ Greater(CalculateMa(daily_prices, 60),
                             CalculateMa(daily_prices, 120)))
             THEN FALSE
             ELSE IF AdxRejects(daily[code]) THEN FALSE
             ELSE IF Len(prices_15m) < LongMa15m THEN FALSE
             ELSE IF CrossRejects(prices_15m) THEN FALSE
             ELSE IF \/ Greater(Value(RsiLow, 1), rsi)
                     \/ Greater(rsi, Value(RsiHigh, 1))
             THEN FALSE
             ELSE TRUE

UniverseCall(code, market_cap, daily_volume, price, result) ==
    [fn |-> "check_universe_filter", code |-> code,
     periods |-> <<market_cap, daily_volume, price>>, result |-> result]

CallCheckUniverseFilter(code, market_cap, daily_volume, price) ==
    /\ variant = "universe"
    /\ ind_call' = UniverseCall(code, market_cap, daily_volume, price,
                                CheckUniverseFilter(candles_daily,
                                                    candles_15m, code,
                                                    market_cap, daily_volume,
                                                    price))
    /\ UNCHANGED <<variant, asbVars, tvVars, kisVars, atrVars, svcVars, cbVars,
                   taVars, sc_strength_history, ind_left>>

NextUniverse ==
    \E market_cap \in UFMarketCaps, daily_volume \in UFDailyVolumes,
       price \in UFPrices :
        CallCheckUniverseFilter("A", market_cap, daily_volume, price)

SpecUniverse == InitUniverse /\ [][NextUniverse]_vars

(***************************************************************************)
(* class PerformanceTracker of scalping_system_v3.py.  Its limits are      *)
(* those of StrategyConfig.RISK_MANAGEMENT, which has the values of        *)
(* class Strategy.  A drawdown is kept as a quotient in lowest terms.      *)
(***************************************************************************)
V3NoStats == [trades |-> 0, wins |-> 0, losses |-> 0, profit |-> 0,
              volume |-> 0]

RECURSIVE GCD(_, _)
GCD(a, b) == IF b = 0 THEN a ELSE GCD(b, a % b)

\* num / den for num >= 0 and den > 0
InLowestTerms(num, den) ==
    LET g == GCD(num, den) IN Value(num \div g, den \div g)

V3PerformanceInit ==
    [start_capital |-> 0,
     current_capital |-> 0,
     peak_capital |-> 0,
     current_drawdown |-> Value(0, 1),
     max_drawdown |-> Value(0, 1),
     trades |-> <<>>,
     daily_stats |-> [d \in Dates |-> V3NoStats],
     consecutive_losses |-> 0,
     last_loss_time |-> NoTime]

\* record_trade: the tracker it leaves and whether it raised
\* ZeroDivisionError at the division by peak_capital
V3RecordTrade(perf, trade_data, t) ==
    LET date == Date(t)
        stats == perf.daily_stats[date]
        profit_loss == trade_data.profit
        win == profit_loss > 0
        stats2 == [trades |-> stats.trades + 1,
                   wins |-> stats.wins + (IF win THEN 1 ELSE 0),
                   losses |-> stats.losses + (IF win THEN 0 ELSE 1),
                   profit |-> stats.profit + profit_loss,
                   volume |-> stats.volume + trade_data.amount]
        capital == perf.current_capital + profit_loss
        peak == IF capital > perf.peak_capital
                THEN capital ELSE perf.peak_capital
        upto270 ==
            [perf EXCEPT
                !.trades = Append(@, [code |-> trade_data.code,
                                      profit |-> profit_loss,
                                      amount |-> trade_data.amount,
                                      time |-> t]),
                !.daily_stats = [@ EXCEPT ![date] = stats2],
                !.consecutive_losses = IF win THEN 0 ELSE @ + 1,
                !.last_loss_time = IF win THEN @ ELSE t,
                !.current_capital = capital,
                !.peak_capital = peak]
        drawdown == InLowestTerms(peak - capital, peak)
    IN  IF peak = 0
        THEN [perf |-> upto270, raised |-> TRUE]
        ELSE [perf |-> [upto270 EXCEPT
                           !.current_drawdown = drawdown,
                           !.max_drawdown =
                               IF Greater(drawdown, @) THEN drawdown ELSE @],
              raised |-> FALSE]

\* (t1 - t0).total_seconds()
TotalSeconds(t1, t0) == (t1 - t0) * TickSeconds

V3ShouldStopTrading(perf, t) ==
    \/ /\ perf.consecutive_losses >= CONSECUTIVE_LOSS
       /\ perf.last_loss_time # NoTime
       /\ TotalSeconds(t, perf.last_loss_time) < COOLDOWN_SECONDS
    \/ perf.daily_stats[Date(t)].profit * 1000
           < -(perf.start_capital * DAILY_LOSS_LIMIT)
    \/ /\ Len(perf.trades) >= MIN_TRADES_WIN_RATE
       /\ WinRateBelow(perf)
    \/ Greater(perf.max_drawdown, Value(MAX_DRAWDOWN, 1000))

(***************************************************************************)
(* A PerformanceTracker on its own: record_trade and should_stop_trading   *)
(* are called at any time of a clock of two days.  A run starts with a new *)
(* tracker or with one that has recorded the trades of PTHistories.        *)
(***************************************************************************)
PTProfits == {-450000, -100000, 0, 100000}
PTAmount == 2000000

PTTrade(profit) ==
    [code |-> "A", profit |-> profit, reason |-> "", amount |-> PTAmount]

\* five winning trades, then two and three losing ones
PTHistories ==
    {<<>>,
     <<100000, 100000, 100000, 100000, 100000, -100000, -100000>>,
     <<100000, 100000, 100000, 100000, 100000, -100000, -100000, -100000>>}

\* a record_trade that never sets consecutive_losses back to 0
PTRecordNeverResets(impl, perf, profit, t) ==
    LET done == IF impl = "asb"
                THEN [perf |-> RecordTrade(perf, PTTrade(profit), t),
                      raised |-> FALSE]
                ELSE V3RecordTrade(perf, PTTrade(profit), t)
    IN  [done EXCEPT !.perf.consecutive_losses = perf.consecutive_losses + 1]

PTRecord(impl, perf, profit, t) ==
    IF impl = "asb"
    THEN [perf |-> RecordTrade(perf, PTTrade(profit), t), raised |-> FALSE]
    ELSE V3RecordTrade(perf, PTTrade(profit), t)

PTStop(impl, perf, t) ==
    IF impl = "asb" THEN ShouldStopTrading(perf, t)
    ELSE V3ShouldStopTrading(perf, t)

\* the tracker after the trades of history, recorded at time 0
RECURSIVE PTReplay(_, _)
PTReplay(impl, history) ==
    IF history = <<>>
    THEN IF impl = "asb" THEN PerformanceInit ELSE V3PerformanceInit
    ELSE PTRecord(impl, PTReplay(impl, SubSeq(history, 1, Len(history) - 1)),
                  history[Len(history)], 0).perf

InitTracker ==
    /\ variant = "tracker"
    /\ feed = {} /\ signals = 0 /\ StartASB
    /\ StartTV(0)
    /\ StartKIS
    /\ StartATR(FALSE, 0)
    /\ cb_candles = EmptyDict
    /\ cb_current_candles = EmptyDict
    /\ cb_candle_start_times = EmptyDict
    /\ cb_ticks = [c \in CBSymbols |-> <<>>]
    /\ cb_out = NoTick
    /\ cb_left = 0
    /\ ta_prices = <<>>
    /\ candles_daily = EmptyDict
    /\ candles_15m = EmptyDict
    /\ sc_strength_history = EmptyDict
    /\ ind_call = NoCall
    /\ ind_left = 0
    /\ pt_impl \in {"asb", "v3"}
    /\ \E history \in PTHistories : pt = PTReplay(pt_impl, history)
    /\ pt_now = 0
    /\ pt_call = NoPTCall
    /\ pt_left = PTMaxTrades
    /\ StartWS
    /\ sd = SDInit
    /\ rc = RCInit
    /\ em = EMInit

PTUnchanged ==
    UNCHANGED <<variant, asbVars, tvVars, kisVars, atrVars, cbVars, indVars,
                wsVars, sd, rc, em>>

\* record_trade(trade)
PTRecordTrade(profit) ==
    /\ variant = "tracker"
    /\ pt_left > 0
    /\ LET done == PTRecord(pt_impl, pt, profit, pt_now)
       IN  /\ pt' = done.perf
           /\ pt_call' = [fn |-> "record_trade", profit |-> profit,
                          time |-> pt_now, raised |-> done.raised,
                          result |-> FALSE]
    /\ pt_left' = pt_left - 1
    /\ UNCHANGED <<pt_impl, pt_now>>
    /\ PTUnchanged

\* should_stop_trading()
PTShouldStopTrading ==
    /\ variant = "tracker"
    /\ pt_call' = [fn |-> "should_stop_trading", profit |-> 0,
                   time |-> pt_now, raised |-> FALSE,
                   result |-> PTStop(pt_impl, pt, pt_now)]
    /\ UNCHANGED <<pt_impl, pt, pt_now, pt_left>>
    /\ PTUnchanged

\* the clock: a tick passes in the first ticks of a day
PTTick ==
    /\ variant = "tracker"
    /\ pt_now < PTMaxTime
    /\ pt_now % DayTicks < 2
    /\ pt_now' = pt_now + 1
    /\ UNCHANGED <<pt_impl, pt, pt_call, pt_left>>
    /\ PTUnchanged

\* the clock: a day passes
PTDay ==
    /\ variant = "tracker"
    /\ pt_now + DayTicks <= PTMaxTime
    /\ pt_now' = pt_now + DayTicks
    /\ UNCHANGED <<pt_impl, pt, pt_call, pt_left>>
    /\ PTUnchanged

NextTracker ==
    \/ \E profit \in PTProfits : PTRecordTrade(profit)
    \/ PTShouldStopTrading
    \/ PTTick
    \/ PTDay

SpecTracker == InitTracker /\ [][NextTracker]_vars

(***************************************************************************)
(* The streaming connections: ReconnectableWebSocket of                    *)
(* realtime_modules.py ("rm"), WebSocketClient of                          *)
(* advanced_scalping_realtime.py ("rt") and ExecutionNotifier of           *)
(* ATR_main.py ("atr").  The connection task is followed from one await to *)
(* the next; a call of subscribe by another task runs at an await of the   *)
(* connection task.  `async for raw in self.ws` ends without an exception  *)
(* when the connection is closed in order and raises ConnectionClosed when *)
(* it is lost otherwise.                                                   *)
(***************************************************************************)
max_reconnect == 5
max_retries == 3

WSPairs == {<<"H0STCNT0", "A">>, <<"H0STCNT0", "B">>, <<"H0STASP0", "A">>}

InitWS ==
    /\ variant = "ws"
    /\ feed = {} /\ signals = 0 /\ StartASB
    /\ StartTV(0)
    /\ StartKIS
    /\ StartATR(FALSE, 0)
    /\ cb_candles = EmptyDict
    /\ cb_current_candles = EmptyDict
    /\ cb_candle_start_times = EmptyDict
    /\ cb_ticks = [c \in CBSymbols |-> <<>>]
    /\ cb_out = NoTick
    /\ cb_left = 0
    /\ ta_prices = <<>>
    /\ candles_daily = EmptyDict
    /\ candles_15m = EmptyDict
    /\ sc_strength_history = EmptyDict
    /\ ind_call = NoCall
    /\ ind_left = 0
    /\ StartPT
    /\ sd = SDInit
    /\ rc = RCInit
    /\ em = EMInit
    /\ ws_impl \in {"rm", "rt", "atr"}
    /\ ws = WSInit
    /\ ws_call = NoWSCall
    /\ ws_left = WSMaxCalls

WSUnchanged ==
    UNCHANGED <<variant, asbVars, tvVars, kisVars, atrVars, cbVars, indVars,
                ptVars, ws_impl, sd, rc, em>>

Contains(list, x) == \E k \in 1..Len(list) : list[k] = x

Request(pair, by) == [pair |-> pair, by |-> by]

\* start(): the thread that runs connect(); ExecutionNotifier.start() is
\* made a task by TradingSystem.initialize
WSStart ==
    /\ variant = "ws"
    /\ ws.pc = "stopped"
    /\ ws' = [ws EXCEPT !.pc = "top", !.is_running = TRUE,
                        !.task = "running"]
    /\ UNCHANGED <<ws_call, ws_left>>
    /\ WSUnchanged

\* stop()
WSStop ==
    /\ variant = "ws"
    /\ ws_impl # "atr"
    /\ ws.is_running
    /\ ws' = [ws EXCEPT !.is_running = FALSE]
    /\ UNCHANGED <<ws_call, ws_left>>
    /\ WSUnchanged

\* connect: the test of the while loop, and the end of connect
LoopTop ==
    /\ variant = "ws"
    /\ ws_impl # "atr"
    /\ ws.pc = "top"
    /\ IF ws.is_running /\ ws.reconnect_count < max_reconnect
       THEN ws' = [ws EXCEPT !.pc = "connect", !.attempt_after = ws.since]
       ELSE ws' = [ws EXCEPT !.pc = "done", !.task = "returned"]
    /\ UNCHANGED <<ws_call, ws_left>>
    /\ WSUnchanged

\* the handler of ConnectionClosed in connect, for a connection that was
\* made: the wait of reconnect_delay unless the attempts have run out
AfterConnectionClosed(w) ==
    LET count == w.reconnect_count + 1
        out == count >= max_reconnect
    IN  [w EXCEPT !.reconnect_count = count,
                  !.open = FALSE,
                  !.since = "lost",
                  !.exhausted = @ \/ out,
                  !.pc = IF ~out THEN "delay"
                         ELSE IF ws_impl = "rt" THEN "done" ELSE "top",
                  !.task = IF out /\ ws_impl = "rt" THEN "returned" ELSE @]

\* connect: `async with websockets.connect(...)` returns the socket or
\* raises; `except Exception` counts the failure and waits
Connect(ok) ==
    /\ variant = "ws"
    /\ ws_impl # "atr"
    /\ ws.pc = "connect"
    /\ ok => ws.connects < WSMaxConnects
    /\ IF ok
       THEN ws' = [ws EXCEPT !.has_ws = TRUE, !.open = TRUE,
                             !.connects = @ + 1,
                             !.reconnect_count = 0, !.failed = 0,
                             !.sent = <<>>,
                             !.at_connect = ws.subscriptions,
                             !.i = 1,
                             !.pc = IF ws.subscriptions # <<>>
                                    THEN "resubscribe" ELSE "receive"]
       ELSE ws' = [ws EXCEPT !.reconnect_count = @ + 1,
                             !.failed = @ + 1,
                             !.since = "failed",
                             !.exhausted =
                                 @ \/ ws.reconnect_count + 1 >= max_reconnect,
                             !.pc = "delay"]
    /\ UNCHANGED <<ws_call, ws_left>>
    /\ WSUnchanged

\* the registry after subscribe has sent its request
Registered(subscriptions, pair) ==
    IF ws_impl = "rm" /\ Contains(subscriptions, pair) THEN subscriptions
    ELSE Append(subscriptions, pair)

\* a registry that takes every pair once more
RegisteredAgain(subscriptions, pair) == Append(subscriptions, pair)

\* resubscribe: one pass of `for tr_id, tr_key in self.subscriptions` up to
\* its sleep; the loop ends when the index has passed the end of the list
\* as it is then.  subscribe raises ConnectionClosed on a closed socket.
Resubscribe ==
    /\ variant = "ws"
    /\ ws.pc = "resubscribe"
    /\ IF ws.i > Len(ws.subscriptions)
       THEN ws' = [ws EXCEPT !.pc = "receive"]
       ELSE IF ~ws.open
       THEN ws' = AfterConnectionClosed(ws)
       ELSE /\ Len(ws.sent) < WSMaxSends
            /\ LET pair == ws.subscriptions[ws.i]
               IN  ws' = [ws EXCEPT
                            !.sent = Append(@, Request(pair, "resubscribe")),
                            !.subscriptions = Registered(@, pair),
                            !.pc = "resubscribe sleep"]
    /\ UNCHANGED <<ws_call, ws_left>>
    /\ WSUnchanged

\* resubscribe: `await asyncio.sleep(0.1)`
ResubscribeSleep ==
    /\ variant = "ws"
    /\ ws.pc = "resubscribe sleep"
    /\ ws' = [ws EXCEPT !.i = @ + 1, !.pc = "resubscribe"]
    /\ UNCHANGED <<ws_call, ws_left>>
    /\ WSUnchanged

\* the peer or the network closes the socket while resubscribe is at work
Drop ==
    /\ variant = "ws"
    /\ ws.pc \in {"resubscribe", "resubscribe sleep"}
    /\ ws.open
    /\ ws' = [ws EXCEPT !.open = FALSE]
    /\ UNCHANGED <<ws_call, ws_left>>
    /\ WSUnchanged

\* receive_messages ends: in order (the loop ends, connect goes on to the
\* test of its while loop) or with ConnectionClosed
ReceiveEnds(in_order) ==
    /\ variant = "ws"
    /\ ws_impl # "atr"
    /\ ws.pc = "receive"
    /\ IF in_order
       THEN ws' = [ws EXCEPT !.open = FALSE, !.since = "lost", !.pc = "top"]
       ELSE ws' = AfterConnectionClosed(ws)
    /\ UNCHANGED <<ws_call, ws_left>>
    /\ WSUnchanged

\* connect: `await asyncio.sleep(self.reconnect_delay)`
Delay ==
    /\ variant = "ws"
    /\ ws.pc = "delay"
    /\ ws' = [ws EXCEPT !.since = "delay", !.pc = "top"]
    /\ UNCHANGED <<ws_call, ws_left>>
    /\ WSUnchanged

\* subscribe(tr_id, tr_key), called by another task while the connection
\* task is at an await or has ended
Subscribe(pair) ==
    /\ variant = "ws"
    /\ ws_impl # "atr"
    /\ ws_left > 0
    /\ ws.pc \notin {"top", "resubscribe"}
    /\ ws_left' = ws_left - 1
    /\ IF ~ws.has_ws
       THEN /\ ws_call' = [n |-> ws_call.n + 1, pair |-> pair, pc |-> ws.pc,
                           outcome |-> "not connected"]
            /\ UNCHANGED ws
       ELSE IF ~ws.open
       THEN /\ ws_call' = [n |-> ws_call.n + 1, pair |-> pair, pc |-> ws.pc,
                           outcome |-> "raised"]
            /\ UNCHANGED ws
       ELSE /\ Len(ws.sent) < WSMaxSends
            /\ ws_call' = [n |-> ws_call.n + 1, pair |-> pair, pc |-> ws.pc,
                           outcome |-> "sent"]
            /\ ws' = [ws EXCEPT
                        !.sent = Append(@, Request(pair, "caller")),
                        !.subscriptions = Registered(@, pair)]
    /\ WSUnchanged

(***************************************************************************)
(* ExecutionNotifier.connect_and_subscribe and start.  reconnect_count is  *)
(* the variable attempt of `for attempt in range(max_retries)`.            *)
(***************************************************************************)
\* the next pass of the for loop, or its end and the return to start()
NotifierLoopTop ==
    /\ variant = "ws"
    /\ ws_impl = "atr"
    /\ ws.pc = "top"
    /\ IF ws.reconnect_count < max_retries
       THEN ws' = [ws EXCEPT !.pc = "connect", !.attempt_after = ws.since]
       ELSE ws' = [ws EXCEPT !.pc = "start sleep"]
    /\ UNCHANGED <<ws_call, ws_left>>
    /\ WSUnchanged

\* ensure_approval_key, websockets.connect and the registration: all done,
\* no approval key (connect_and_subscribe returns), or an exception, which
\* is raised again on the last attempt and caught by start()
NotifierConnect(outcome) ==
    /\ variant = "ws"
    /\ ws_impl = "atr"
    /\ ws.pc = "connect"
    /\ outcome = "ok" => ws.connects < WSMaxConnects
    /\ CASE outcome = "ok" ->
                ws' = [ws EXCEPT !.has_ws = TRUE, !.open = TRUE,
                                 !.connects = @ + 1, !.pc = "receive"]
         [] outcome = "no key" ->
                ws' = [ws EXCEPT !.since = "failed", !.pc = "start sleep"]
         [] outcome = "error" ->
                IF ws.reconnect_count < max_retries - 1
                THEN ws' = [ws EXCEPT !.since = "failed",
                                      !.has_ws = FALSE,
                                      !.pc = "delay"]
                ELSE ws' = [ws EXCEPT !.since = "failed",
                                      !.has_ws = FALSE,
                                      !.exhausted = TRUE,
                                      !.pc = "start sleep"]
    /\ UNCHANGED <<ws_call, ws_left>>
    /\ WSUnchanged

\* the wait of retry_delay, after which the for loop takes its next value
NotifierDelay ==
    /\ variant = "ws"
    /\ ws_impl = "atr"
    /\ ws.pc = "delay"
    /\ ws' = [ws EXCEPT !.since = "delay", !.pc = "top",
                        !.reconnect_count = @ + 1]
    /\ UNCHANGED <<ws_call, ws_left>>
    /\ WSUnchanged

\* the receive loop: an exception of ws.recv() breaks it, the socket is
\* left and the for loop takes its next value
NotifierReceiveError ==
    /\ variant = "ws"
    /\ ws_impl = "atr"
    /\ ws.pc = "receive"
    /\ ws' = [ws EXCEPT !.open = FALSE, !.has_ws = FALSE, !.since = "lost",
                        !.reconnect_count = @ + 1, !.pc = "top"]
    /\ UNCHANGED <<ws_call, ws_left>>
    /\ WSUnchanged

\* start(): the wait of reconnect_delay and the next connect_and_subscribe
NotifierStartSleep ==
    /\ variant = "ws"
    /\ ws_impl = "atr"
    /\ ws.pc = "start sleep"
    /\ ws' = [ws EXCEPT !.since = "delay", !.pc = "top",
                        !.reconnect_count = 0]
    /\ UNCHANGED <<ws_call, ws_left>>
    /\ WSUnchanged

NextWS ==
    \/ WSStart
    \/ WSStop
    \/ LoopTop
    \/ \E ok \in BOOLEAN : Connect(ok)
    \/ Resubscribe
    \/ ResubscribeSleep
    \/ Drop
    \/ \E in_order \in BOOLEAN : ReceiveEnds(in_order)
    \/ Delay
    \/ \E pair \in WSPairs : Subscribe(pair)
    \/ NotifierLoopTop
    \/ \E outcome \in {"ok", "no key", "error"} : NotifierConnect(outcome)
    \/ NotifierDelay
    \/ NotifierReceiveError
    \/ NotifierStartSleep

SpecWS == InitWS /\ [][NextWS]_vars

\* The connection task of a client takes its own steps: the event loop of
\* the thread of start() runs it whenever it is not waiting for the server.
\* What the server and the network do (end or drop a connection) and what
\* other tasks do is under no such condition.
SpecWSLive ==
    /\ SpecWS
    /\ WF_vars(LoopTop)
    /\ WF_vars(\E ok \in BOOLEAN : Connect(ok))
    /\ WF_vars(Resubscribe)
    /\ WF_vars(ResubscribeSleep)
    /\ WF_vars(Delay)

(***************************************************************************)
(* ATR_main.py: main, TradingSystem.run and TradingSystem.shutdown.  The   *)
(* coroutines run on one event loop: a coroutine gives way only at an      *)
(* await that suspends (asyncio.sleep, and telegram.send when the notifier *)
(* is enabled); sd.atomic names the coroutine that has not come to such an *)
(* await yet.  The monitor tasks of the positions are not part of this     *)
(* variant.                                                                *)
(***************************************************************************)
SDMaxBatches == 2

SDPriceOutcomes == {"no price"} \cup Outcomes

InitShutdown ==
    /\ variant = "shutdown"
    /\ feed = {} /\ signals = 0 /\ StartASB
    /\ StartTV(0)
    /\ StartKIS
    /\ \E dry \in BOOLEAN : StartATR(dry, SDMaxBatches)
    /\ cb_candles = EmptyDict
    /\ cb_current_candles = EmptyDict
    /\ cb_candle_start_times = EmptyDict
    /\ cb_ticks = [c \in CBSymbols |-> <<>>]
    /\ cb_out = NoTick
    /\ cb_left = 0
    /\ ta_prices = <<>>
    /\ candles_daily = EmptyDict
    /\ candles_15m = EmptyDict
    /\ sc_strength_history = EmptyDict
    /\ ind_call = NoCall
    /\ ind_left = 0
    /\ StartPT
    /\ StartWS
    /\ \E enabled \in BOOLEAN : sd = [SDInit EXCEPT !.telegram = enabled]
    /\ rc = RCInit
    /\ em = EMInit

SDUnchanged ==
    UNCHANGED <<variant, asbVars, tvVars, kisVars, atr_dry_run, cbVars,
                indVars, ptVars, wsVars, rc, em>>

Remove(list, x) == SelectSeq(list, LAMBDA c : c # x)

\* shutdown(): `self.is_running = False` and the snapshot
\* `list(position_manager.positions.keys())`
BeginShutdown(s, who) ==
    LET noted == [s EXCEPT !.is_running = FALSE,
                           !.atomic = who,
                           !.started = TRUE,
                           !.open_at_start =
                               IF s.started THEN @ ELSE DOMAIN atr_positions]
    IN  IF who = "task"
        THEN [noted EXCEPT !.task = "closing", !.task_keys = s.order]
        ELSE [noted EXCEPT !.main = "closing", !.main_keys = s.order]

\* run(): the test of `while self.is_running`.  When it fails run() returns
\* and main goes through its finally into shutdown(); otherwise, with room
\* for a position, the next batch is taken and the for loop begins.
SDRunTest ==
    /\ variant = "shutdown"
    /\ sd.run = "test"
    /\ sd.atomic = ""
    /\ IF ~sd.is_running
       THEN /\ sd' = [BeginShutdown(sd, "main") EXCEPT !.run = "returned"]
            /\ atr_call' = ATR_Call("shutdown", "", NoPrice)
            /\ UNCHANGED <<atr_batch, atr_signals>>
       ELSE /\ atr_signals > 0
            /\ ATR_CanOpenPosition(atr_positions)
            /\ atr_batch' = ATRBatch
            /\ atr_signals' = atr_signals - 1
            /\ atr_call' = ATR_Call("scan", "", NoPrice)
            /\ sd' = [sd EXCEPT !.run = "batch", !.atomic = "run"]
    /\ atr_sent' = <<>>
    /\ UNCHANGED atr_positions
    /\ SDUnchanged

\* run(): the body of `for code in batch` for the next code.  A code that
\* is held or shows no surge is passed with `continue`, without an await;
\* the others end in `await asyncio.sleep(0.5)`, and the batch ends in
\* `await asyncio.sleep(1)`.  Nothing in the body reads is_running.
SDScanCode(price, surge, balance, result) ==
    /\ variant = "shutdown"
    /\ sd.run = "batch"
    /\ sd.atomic \in {"", "run"}
    /\ atr_batch # <<>>
    /\ LET code == Head(atr_batch)
           skip == ATR_HasPosition(atr_positions, code) \/ ~surge
       IN  /\ IF skip
              THEN /\ (\A b \in ATRBalances : balance >= b) /\ result = "ok"
                   /\ atr_call' = ATR_Call("skip", code, NoPrice)
                   /\ atr_sent' = <<>>
                   /\ UNCHANGED atr_positions
              ELSE /\ (balance < MinBalance \/ atr_dry_run) => result = "ok"
                   /\ atr_call' = ATR_Call("open", code, price)
                   /\ ATR_OpenPosition(code, price, ATR_CheckStrategy(price),
                                       balance, result)
           /\ atr_batch' = Tail(atr_batch)
           /\ sd' = [sd EXCEPT
                       !.order = IF code \in DOMAIN atr_positions'
                                    /\ code \notin DOMAIN atr_positions
                                 THEN Append(@, code) ELSE @,
                       !.run = IF Tail(atr_batch) = <<>> THEN "test"
                               ELSE "batch",
                       !.atomic = IF skip /\ Tail(atr_batch) # <<>>
                                  THEN "run" ELSE ""]
    /\ UNCHANGED atr_signals
    /\ SDUnchanged

\* main: signal_handler, `asyncio.create_task(system.shutdown())`
SDSignal ==
    /\ variant = "shutdown"
    /\ sd.task = "none"
    /\ sd.main = "run"
    /\ sd' = [sd EXCEPT !.task = "created"]
    /\ UNCHANGED <<atr_positions, atr_signals, atr_batch, atr_sent, atr_call>>
    /\ SDUnchanged

\* the task of the signal handler starts to run shutdown()
SDTaskBegin ==
    /\ variant = "shutdown"
    /\ sd.task = "created"
    /\ sd.atomic = ""
    /\ sd.main # "done"
    /\ sd' = BeginShutdown(sd, "task")
    /\ atr_call' = ATR_Call("shutdown", "", NoPrice)
    /\ atr_sent' = <<>>
    /\ UNCHANGED <<atr_positions, atr_signals, atr_batch>>
    /\ SDUnchanged

SDPc(who) == IF who = "task" THEN sd.task ELSE sd.main
SDKeys(who) == IF who = "task" THEN sd.task_keys ELSE sd.main_keys
SDAt(who) == IF who = "task" THEN sd.task_at ELSE sd.main_at

\* the shutdown() of who may take a step: it is the coroutine that runs, or
\* none runs; the task is cancelled when main has ended
SDTurn(who) ==
    /\ variant = "shutdown"
    /\ sd.atomic \in {"", who}
    /\ who = "task" => sd.main # "done"

SDAfter(s, who, keys, at, atomic) ==
    IF who = "task"
    THEN [s EXCEPT !.task_keys = keys, !.task_at = at, !.atomic = atomic]
    ELSE [s EXCEPT !.main_keys = keys, !.main_at = at, !.atomic = atomic]

\* shutdown(): one pass of `for code in list(...keys())`: get_current_price
\* (outcome "no price": it raises and the pass ends in the except branch)
\* and close_position, which returns at once for a code no longer held,
\* deletes the position with no order in DRY_RUN_MODE, and otherwise sends
\* the sell order; when it is accepted close_position awaits telegram.send
\* and deletes the position after it
SDClose(who, outcome) ==
    /\ SDTurn(who)
    /\ SDPc(who) = "closing"
    /\ SDAt(who) = ""
    /\ SDKeys(who) # <<>>
    /\ LET code == Head(SDKeys(who))
           rest == Tail(SDKeys(who))
           taken == [sd EXCEPT !.taken = @ \cup {code}]
       IN  /\ atr_call' = ATR_Call("shutdown", code, NoPrice)
           /\ IF outcome = "no price"
              THEN /\ atr_sent' = <<>>
                   /\ UNCHANGED atr_positions
                   /\ sd' = SDAfter(taken, who, rest, "", who)
              ELSE IF code \notin DOMAIN atr_positions \/ atr_dry_run
              THEN /\ outcome = "ok"
                   /\ atr_sent' = <<>>
                   /\ atr_positions' = DictDel(atr_positions, code)
                   /\ sd' = SDAfter([taken EXCEPT !.order = Remove(@, code)],
                                    who, rest, "", who)
              ELSE /\ atr_sent' = <<Order("sell", code,
                                          atr_positions[code].remaining_qty,
                                          outcome)>>
                   /\ IF outcome # "ok"
                      THEN /\ UNCHANGED atr_positions
                           /\ sd' = SDAfter(taken, who, rest, "", who)
                      ELSE IF sd.telegram
                      THEN /\ UNCHANGED atr_positions
                           /\ sd' = SDAfter(taken, who, rest, code, "")
                      ELSE /\ atr_positions' = DictDel(atr_positions, code)
                           /\ sd' = SDAfter([taken EXCEPT
                                                !.order = Remove(@, code)],
                                            who, rest, "", who)
    /\ UNCHANGED <<atr_signals, atr_batch>>
    /\ SDUnchanged

\* close_position after its telegram.send: `del self.positions[code]`
\* (KeyError, caught and logged, when another close has deleted it)
SDCloseResume(who) ==
    /\ SDTurn(who)
    /\ SDPc(who) = "closing"
    /\ SDAt(who) # ""
    /\ atr_positions' = DictDel(atr_positions, SDAt(who))
    /\ sd' = SDAfter([sd EXCEPT !.order = Remove(@, SDAt(who))],
                     who, SDKeys(who), "", who)
    /\ atr_call' = ATR_Call("shutdown", SDAt(who), NoPrice)
    /\ atr_sent' = <<>>
    /\ UNCHANGED <<atr_signals, atr_batch>>
    /\ SDUnchanged

\* shutdown() after its loop: `await telegram.send(...)` and the return;
\* with it main ends, and the event loop cancels the task
SDEnd(who) ==
    /\ SDTurn(who)
    /\ SDPc(who) \in {"closing", "goodbye"}
    /\ SDPc(who) = "closing" => SDAt(who) = "" /\ SDKeys(who) = <<>>
    /\ LET next == IF SDPc(who) = "closing" /\ sd.telegram THEN "goodbye"
                 ELSE "done"
       IN  sd' = IF who = "task"
                 THEN [sd EXCEPT !.task = next, !.atomic = ""]
                 ELSE [sd EXCEPT !.main = next, !.atomic = ""]
    /\ UNCHANGED <<atr_positions, atr_signals, atr_batch, atr_sent, atr_call>>
    /\ SDUnchanged

NextShutdown ==
    \/ SDRunTest
    \/ \E price \in ATREntryPrices, surge \in BOOLEAN, balance \in ATRBalances,
          result \in Outcomes : SDScanCode(price, surge, balance, result)
    \/ SDSignal
    \/ SDTaskBegin
    \/ \E who \in {"task", "main"}, outcome \in SDPriceOutcomes :
           SDClose(who, outcome)
    \/ \E who \in {"task", "main"} : SDCloseResume(who)
    \/ \E who \in {"task", "main"} : SDEnd(who)

SpecShutdown == InitShutdown /\ [][NextShutdown]_vars

(***************************************************************************)
(* advanced_scalping_bot.py: run_loop polls one position every             *)
(* `time.sleep(10)`; the clock is in seconds.  EMERGENCY_SECONDS is        *)
(* Strategy.EMERGENCY_SECONDS, which no line of the file reads.            *)
(***************************************************************************)
PollSeconds == 10
EMERGENCY_SECONDS == 60
EMMaxPolls == 8
EMPrices == {10040, 10120, 10200}

InitEM ==
    /\ variant = "em"
    /\ feed = {} /\ signals = 0 /\ StartASB
    /\ StartTV(0)
    /\ StartKIS
    /\ StartATR(FALSE, 0)
    /\ cb_candles = EmptyDict
    /\ cb_current_candles = EmptyDict
    /\ cb_candle_start_times = EmptyDict
    /\ cb_ticks = [c \in CBSymbols |-> <<>>]
    /\ cb_out = NoTick
    /\ cb_left = 0
    /\ ta_prices = <<>>
    /\ candles_daily = EmptyDict
    /\ candles_15m = EmptyDict
    /\ sc_strength_history = EmptyDict
    /\ ind_call = NoCall
    /\ ind_left = 0
    /\ StartPT
    /\ StartWS
    /\ sd = SDInit
    /\ rc = RCInit
    /\ \E price \in EntryPrices :
           em = [EMInit EXCEPT !.open = TRUE,
                               !.position = NewPosition(price, 10, 0),
                               !.left = EMMaxPolls]

\* one cycle of run_loop for the position: check_exit_signal at the price
\* cp, execute_sell when it says so (outcome is what the broker answers),
\* and the sleep
EMPoll(cp, outcome) ==
    /\ variant = "em"
    /\ em.open
    /\ em.left > 0
    /\ LET result == CheckExitSignal(em.position, cp, <<>>,
                         em.position.entry_time + em.t \div TickSeconds)
       IN  /\ ~result.exit => outcome = "ok"
           /\ em' = [open |-> ~(result.exit /\ outcome = "ok"),
                     position |-> result.position,
                     t |-> em.t + PollSeconds,
                     samples |-> Append(em.samples, cp),
                     last |-> [cp |-> cp, exit |-> result.exit,
                               reason |-> result.reason],
                     left |-> em.left - 1]
    /\ UNCHANGED <<variant, asbVars, tvVars, kisVars, atrVars, cbVars,
                   indVars, ptVars, wsVars, sd, rc>>

NextEM == \E cp \in EMPrices, outcome \in Outcomes : EMPoll(cp, outcome)

SpecEM == InitEM /\ [][NextEM]_vars

(***************************************************************************)
(* advanced_scalping_realtime.py: the feed thread (WebSocketClient.start   *)
(* runs connect in a daemon thread, whose ticks reach on_tick and          *)
(* add_tick) next to the polling thread, which calls check_entry_signal.   *)
(* No lock is taken by either.  list(deque) and deque.append are single    *)
(* calls of the interpreter, so each read of the series is a step of its   *)
(* own; the thread can be switched between the two reads of                *)
(* check_entry_signal.  The builder starts with MinCandles candles and an  *)
(* open candle.                                                            *)
(***************************************************************************)
RaceMaxTicks == 2
RaceMaxPolls == 2
RaceTimes == {131, 135}

InitRace ==
    /\ variant = "cb"
    /\ feed = {} /\ signals = 0 /\ StartASB
    /\ StartTV(0)
    /\ StartKIS
    /\ StartATR(FALSE, 0)
    /\ \E shape \in EntryShapes, volume \in EntryVolumes :
           LET open == FlatCandle(MinCandles + 1, 2)
           IN  /\ cb_candles = [c \in {"A"} |->
                      EntrySeries(MinCandles, 20, 0, 2, shape, volume)]
               /\ cb_current_candles = [c \in {"A"} |-> open]
               /\ cb_candle_start_times = [c \in {"A"} |-> open.time]
    /\ cb_ticks = [c \in CBSymbols |-> <<>>]
    /\ cb_out = NoTick
    /\ cb_left = RaceMaxTicks
    /\ ta_prices = <<>>
    /\ candles_daily = EmptyDict
    /\ candles_15m = EmptyDict
    /\ \E history \in EntryHistories :
           sc_strength_history = [c \in {"A"} |-> history]
    /\ ind_call = NoCall
    /\ ind_left = 0
    /\ StartPT
    /\ StartWS
    /\ sd = SDInit
    /\ rc = [RCInit EXCEPT !.left = RaceMaxPolls]
    /\ em = EMInit

\* check_entry_signal of advanced_scalping_realtime.py after its two reads:
\* list is what get_candles returned, avg_volume what get_recent_volume_avg
\* returned
CheckEntrySignalAfterReads(list, avg_volume, strength_history, code) ==
    LET n == Len(list)
        current == list[n]
        recent_highs == LastN([i \in 1..n |-> list[i].high], BreakoutWindow)
    IN  IF VolumeShort(current, avg_volume)
        THEN EntryResult(FALSE, "volume")
        ELSE IF ~CheckConsecutiveStrength(strength_history, code,
                                          MIN_STRENGTH_3BARS, StrengthPeriods)
        THEN EntryResult(FALSE, "strength")
        ELSE IF current.close <= current.open
        THEN EntryResult(FALSE, "red candle")
        ELSE IF LongWick(current)
        THEN EntryResult(FALSE, "long wick")
        ELSE IF GreenCount(LastN(list, 3)) < MIN_GREEN_CANDLES
        THEN EntryResult(FALSE, "few green candles")
        ELSE IF current.close <= MaxOf(ButLast(recent_highs))
        THEN EntryResult(FALSE, "no breakout")
        ELSE EntryResult(TRUE, "entry")

RaceUnchanged ==
    UNCHANGED <<variant, asbVars, tvVars, kisVars, atrVars, cbVars, indVars,
                ptVars, wsVars, sd, em>>

\* the polling thread: `candles = self.candle_builder.get_candles(code)` and
\* the test of len(candles)
RaceGetCandles(code) ==
    /\ variant = "cb"
    /\ rc.pc = "idle"
    /\ rc.left > 0
    /\ LET list == GetCandles(cb_candles, code, 0)
       IN  rc' = IF Len(list) < MinCandles
                 THEN [pc |-> "idle", code |-> code, candles |-> list,
                       avg_list |-> <<>>, read |-> FALSE, ok |-> FALSE,
                       reason |-> "insufficient data", left |-> rc.left - 1]
                 ELSE [pc |-> "avg", code |-> code, candles |-> list,
                       avg_list |-> <<>>, read |-> FALSE, ok |-> FALSE,
                       reason |-> "", left |-> rc.left - 1]
    /\ RaceUnchanged

\* the polling thread: get_recent_volume_avg(code, 20), which reads the
\* series again, and the rest of check_entry_signal
RaceVolumeAvg ==
    /\ variant = "cb"
    /\ rc.pc = "avg"
    /\ LET avg_list == GetCandles(cb_candles, rc.code, VolumePeriods)
           avg_volume == GetRecentVolumeAvg(cb_candles, rc.code, VolumePeriods)
           result == CheckEntrySignalAfterReads(rc.candles, avg_volume,
                                                sc_strength_history, rc.code)
       IN  rc' = [rc EXCEPT !.pc = "idle", !.avg_list = avg_list,
                            !.read = TRUE, !.ok = result.ok,
                            !.reason = result.reason]
    /\ RaceUnchanged

NextRace ==
    \/ \E code \in CBSymbols, price \in CBPrices, volume \in CBVolumes,
          timestamp \in RaceTimes : AddTick(code, price, volume, timestamp)
    \/ \E code \in CBSymbols : RaceGetCandles(code)
    \/ RaceVolumeAvg

SpecRace == InitRace /\ [][NextRace]_vars

(***************************************************************************)
(* Properties of the multi-layer scalping bot                              *)
(***************************************************************************)
\* a poll of check_exit_signal that saw a price
Polled == poll.code # "" /\ poll.price # NoPrice

\* the last handler call sent one sell order and it did not succeed
SellFailed ==
    /\ Len(sent) = 1
    /\ sent[1].side = "sell"
    /\ sent[1].result # "ok"

\* C1: when the sell order of an exit fails (rejected or the call raises),
\* the position map and the trade history are left as they were and the
\* poll loop lives on to evaluate the exit again in the next cycle.
C1_FailedSellIsRetried ==
    [][(pc = "exits" /\ todo' # todo /\ SellFailed')
           => /\ positions' = positions
              /\ performance' = performance
              /\ pc' # "dead"]_vars

\* C2: in a poll cycle in which should_stop_trading() is true, every open
\* position still has its exit conditions evaluated.
C2_GateNeverBlocksExits == cycle.gated => cycle.open \subseteq cycle.checked

ClaimedOrder ==
    <<"target profit", "trailing stop", "hard stop", "technical stop",
      "time profit", "time loss", "emergency exit">>

CodeOrder ==
    <<"target profit", "trailing stop", "time profit", "hard stop",
      "technical stop", "time loss", "emergency exit">>

\* the member of conds that comes first in order
First(order, conds) ==
    order[CHOOSE i \in 1..Len(order) :
              /\ order[i] \in conds
              /\ \A j \in 1..(i - 1) : order[j] \notin conds]

\* C3 as stated: when exit conditions hold in a poll, the reason reported is
\* that of the first one in the order target profit, trailing stop, hard
\* stop, technical stop, time profit, time loss, emergency exit.
C3_ReasonInClaimedOrder ==
    Polled =>
        /\ poll.conds # {} =>
               poll.exit /\ poll.reason = First(ClaimedOrder, poll.conds)
        /\ poll.rt_conds # {} =>
               poll.rt_exit /\ poll.rt_reason = First(ClaimedOrder, poll.rt_conds)

\* C3 amended: when exit conditions hold in a poll, the reason reported is
\* that of the first one in the order target profit, trailing stop, time
\* profit, hard stop, technical stop, time loss, emergency exit (both
\* check_exit_signal functions; the realtime one has no technical stop and
\* no emergency exit).
C3_ReasonInCodeOrder ==
    Polled =>
        /\ poll.conds # {} =>
               poll.exit /\ poll.reason = First(CodeOrder, poll.conds)
        /\ poll.rt_conds # {} =>
               poll.rt_exit /\ poll.rt_reason = First(CodeOrder, poll.rt_conds)

\* a poll in which the time profit and the technical stop both hold
C3_Witness ==
    /\ Polled
    /\ {"time profit", "technical stop"} \subseteq poll.conds
    /\ poll.reason = "time profit"
    /\ poll.rt_reason = "time profit"

\* C6: a poll that sees price <= entry * (1 - HARD_STOP), with no target
\* profit and no trailing stop holding, sends one sell order for the whole
\* quantity of the position, with reason "hard stop".
C6_HardStopSellsAll ==
    (/\ Polled
     /\ (poll.price - poll.buy_price) * 1000 <= -HARD_STOP * poll.buy_price
     /\ poll.conds \cap {"target profit", "trailing stop"} = {})
        => /\ poll.exit
           /\ poll.reason = "hard stop"
           /\ Len(sent) = 1
           /\ sent[1].side = "sell"
           /\ sent[1].code = poll.code
           /\ sent[1].qty = poll.qty

\* entry 10,000, price 9,740: the hard stop fired for the 20 shares held
C6_Witness ==
    /\ poll.buy_price = 10000
    /\ poll.price = 9740
    /\ poll.reason = "hard stop"
    /\ Len(sent) = 1
    /\ sent[1].qty = 20
    /\ sent[1].result = "ok"
    /\ poll.code \notin DOMAIN positions

\* C7: for a position whose polled prices rose to a peak P with
\* (P - E) / E >= TRAILING_START, a later poll at price p exits with reason
\* "trailing stop" when (P - p) / P >= TRAILING_OFFSET, and does not exit by
\* trailing stop otherwise.
C7_TrailingStopFires ==
    (/\ Polled
     /\ (poll.peak_before - poll.buy_price) * 1000
            >= TRAILING_START * poll.buy_price)
        => IF (poll.peak_before - poll.price) * 1000
                   >= TRAILING_OFFSET * poll.peak_before
           THEN poll.exit /\ poll.reason = "trailing stop"
           ELSE poll.reason # "trailing stop"

\* C8: a code enters the position map only in a buy call whose order
\* succeeded (execute_buy of the scalping bot, open_position of the ATR
\* system), with its peak price equal to its entry price and, in the scalping
\* bot, the trailing stop not active; a buy call whose orders were all
\* rejected leaves the position map as it was.
C8_BornBySuccessfulBuy ==
    [][/\ \A c \in Symbols :
              (c \notin DOMAIN positions /\ c \in DOMAIN positions')
                  => /\ buy_call'.code = c
                     /\ Accepted(sent', "buy") = 1
                     /\ sent'[Len(sent')].result = "ok"
                     /\ positions'[c].peak_price = positions'[c].buy_price
                     /\ positions'[c].buy_price = current_price[c]
                     /\ ~positions'[c].trailing_active
       /\ (pc = "entry" /\ buy_call'.code # "" /\ Accepted(sent', "buy") = 0)
              => positions' = positions
       /\ \A c \in ATRSymbols :
              (c \notin DOMAIN atr_positions /\ c \in DOMAIN atr_positions')
                  => /\ atr_call' = [op |-> "open", code |-> c,
                                     price |-> atr_positions'[c].entry_price]
                     /\ Accepted(atr_sent', "buy") = 1
                     /\ atr_positions'[c].highest_price
                            = atr_positions'[c].entry_price
                     /\ atr_positions'[c].remaining_qty
                            = atr_positions'[c].quantity
       /\ (atr_call'.op = "open" /\ Accepted(atr_sent', "buy") = 0)
              => atr_positions' = atr_positions]_vars

\* a position opened by the second attempt of smart_buy
C8_Witness ==
    /\ buy_call.code \in DOMAIN positions
    /\ buy_call.held = {}
    /\ Len(sent) = 2
    /\ sent[1].result = "reject"
    /\ sent[2].result = "ok"
    /\ positions[buy_call.code].peak_price = 10000

\* C9: the trade history only grows at its end, and it holds as many records
\* as sell orders have succeeded: one more after a successful sell, the
\* same after a failed one.
C9_OneRecordPerClosingSell ==
    [][/\ Len(performance'.trades) >= Len(performance.trades)
       /\ SubSeq(performance'.trades, 1, Len(performance.trades))
              = performance.trades
       /\ Len(performance'.trades) = fills']_vars

\* two closing sells have succeeded and have left two records
C9_Witness ==
    /\ Len(performance.trades) = 2
    /\ fills = 2
    /\ Len(sent) = 1
    /\ sent[1].side = "sell"
    /\ sent[1].result = "ok"

\* the last step was a call of smart_buy / of market_sell
BuyCalled == buy_call.code # "" /\ sent # <<>>
SellCalled == poll.code # "" /\ sent # <<>>

\* what C12 says of the attempts of smart_buy and of market_sell, whatever
\* the order prices are
AttemptsBounded ==
    /\ BuyCalled
           => /\ Len(sent) <= 2
              /\ \A i \in 1..Len(sent) :
                     /\ sent[i].side = "buy"
                     /\ sent[i].code = buy_call.code
              /\ Len(sent) = 2 => sent[1].result = "reject"
              /\ sent[Len(sent)].result = "reject"
                     => /\ Len(sent) = 2
                        /\ buy_call.result = "reject"
                        /\ buy_call.code \notin DOMAIN positions
    /\ SellCalled
           => /\ Len(sent) = 1
              /\ sent[1].side = "sell"
              /\ sent[1].code = poll.code

C13_TimeoutIsRejection ==
    BuyCalled
        => /\ sent[1].result = "raise" => Len(sent) = 2
           /\ sent[Len(sent)].result = "raise"
                  => /\ buy_call.result = "reject"
                     /\ pc # "dead"

(***************************************************************************)
(* Properties of the webhook bot and of the condition search system        *)
(***************************************************************************)
\* C4: in one monitoring cycle at most one sell order is sent for any one
\* position.
C4_OneSellPerCycle ==
    \A c \in TVSymbols :
        Cardinality({i \in 1..Len(tv_sent) : tv_sent[i].code = c}) <= 1

\* C5: once a sell order for the whole quantity of a position has succeeded,
\* no later poll cycle sends another sell order for it.
C5_NoSellAfterFullSell ==
    \A o \in kis_sent : o.side = "sell" => ~o.resold

TVStatus(dict, c) == IF c \in DOMAIN dict THEN dict[c].status ELSE "none"

\* C10: the status of a position moves only along none -> active ->
\* partial_sold -> closed or none -> active -> closed, a closed position is
\* never changed again, and no sell order is sent from a closed position.
C10_StatusMovesForward ==
    [][/\ \A c \in TVSymbols :
              \/ TVStatus(tv_positions', c) = TVStatus(tv_positions, c)
              \/ <<TVStatus(tv_positions, c), TVStatus(tv_positions', c)>>
                     \in {<<"none", "active">>, <<"active", "partial_sold">>,
                          <<"active", "closed">>, <<"partial_sold", "closed">>}
       /\ \A c \in DOMAIN tv_positions :
              tv_positions[c].status = "closed"
                  => tv_positions'[c] = tv_positions[c]
       /\ \A i \in 1..Len(tv_sent') : tv_sent'[i].status # "closed"]_vars

\* the sell orders the last step has sent
TVNewOrders == {i \in 1..Len(tv_sent') : i > Len(tv_sent)}

\* C11: a partial exit sells a positive quantity that is strictly smaller
\* than the quantity held; after a successful one the position is
\* partial_sold and what remains is the held quantity minus the sold one,
\* which is more than zero.
C11_PartialExitSellsPart ==
    [][\A i \in TVNewOrders :
           LET o == tv_sent'[i]
               held == tv_positions[o.code].quantity
           IN  o.why = "profit target"
                   => /\ 0 < o.qty
                      /\ o.qty < held
                      /\ o.result = "ok"
                             => /\ tv_positions'[o.code].status \in
                                       {"partial_sold", "closed"}
                                /\ tv_positions'[o.code].quantity
                                       = held - o.qty
                                /\ held - o.qty > 0]_vars

(***************************************************************************)
(* Properties of the candle builder and of the indicators                  *)
(***************************************************************************)
\* the period of `timeframe` minutes a timestamp falls in
Bucket(timestamp) == timestamp \div timeframe

RECURSIVE Highest(_)
Highest(ticks) ==
    IF Len(ticks) = 1 THEN ticks[1].price
    ELSE Max(ticks[1].price, Highest(Tail(ticks)))

RECURSIVE Lowest(_)
Lowest(ticks) ==
    IF Len(ticks) = 1 THEN ticks[1].price
    ELSE Min(ticks[1].price, Lowest(Tail(ticks)))

RECURSIVE Volume(_)
Volume(ticks) ==
    IF ticks = <<>> THEN 0 ELSE ticks[1].volume + Volume(Tail(ticks))

\* the candle of a run of ticks of one bucket
CandleOf(ticks) ==
    [time |-> Bucket(ticks[1].timestamp) * timeframe,
     open |-> ticks[1].price,
     high |-> Highest(ticks),
     low |-> Lowest(ticks),
     close |-> ticks[Len(ticks)].price,
     volume |-> Volume(ticks)]

\* C14: while the ticks of a symbol fall in one bucket add_tick returns no
\* candle; the first tick of another bucket returns exactly one finalized
\* candle, which is appended to the series: open = first price, close =
\* last price, high = highest and low = lowest price, volume = sum of the
\* volumes of the ticks of the bucket, low <= open, close <= high; the tick
\* that rolls over is counted in the new open candle only.
C14_OneCandlePerBucket ==
    [][LET code == cb_out'.code
           ticks == cb_ticks[code]
           tick == [price |-> cb_out'.price, volume |-> cb_out'.volume,
                    timestamp |-> cb_out'.timestamp]
           returned == cb_out'.returned
       IN  IF ticks = <<>>
           THEN /\ returned = NoCandle
                /\ cb_candles'[code] = <<>>
                /\ cb_current_candles'[code] = CandleOf(<<tick>>)
           ELSE IF Bucket(tick.timestamp) = Bucket(ticks[1].timestamp)
           THEN /\ returned = NoCandle
                /\ cb_candles'[code] = cb_candles[code]
                /\ cb_current_candles'[code] = CandleOf(Append(ticks, tick))
           ELSE /\ returned = CandleOf(ticks)
                /\ returned.low <= returned.open
                /\ returned.open <= returned.high
                /\ returned.low <= returned.close
                /\ returned.close <= returned.high
                /\ cb_candles'[code] = DequeAppend(cb_candles[code], returned)
                /\ cb_current_candles'[code] = CandleOf(<<tick>>)]_vars

\* a rollover has returned a candle of two ticks of different prices, and
\* the price of the tick that rolled over is not its close
C14_Witness ==
    /\ cb_out.returned # NoCandle
    /\ cb_out.returned.low < cb_out.returned.high
    /\ cb_out.price # cb_out.returned.close
    /\ cb_current_candles[cb_out.code].volume = cb_out.volume

\* C15: once add_tick has appended a candle to the series of a symbol, no
\* later add_tick for any symbol changes a field of that candle: a call
\* leaves every series as it is or appends one candle to the series of its
\* own symbol (the deque dropping its oldest candle when it is full).
C15_FinalizedIsImmutable ==
    [][\A c \in DOMAIN cb_candles :
           LET old == cb_candles[c]
               new == cb_candles'[c]
           IN  \/ new = old
               \/ /\ c = cb_out'.code
                  /\ Len(old) < DequeMaxLen
                  /\ Len(new) = Len(old) + 1
                  /\ SubSeq(new, 1, Len(old)) = old
               \/ /\ c = cb_out'.code
                  /\ Len(old) = DequeMaxLen
                  /\ Len(new) = DequeMaxLen
                  /\ SubSeq(new, 1, Len(old) - 1) = Tail(old)]_vars

\* a symbol has a finalized candle and its open candle has then been
\* changed by a later tick, while another symbol has a candle of its own
C15_Witness ==
    \E c \in DOMAIN cb_candles, d \in DOMAIN cb_current_candles :
        /\ c # d
        /\ Len(cb_candles[c]) >= 1
        /\ Len(cb_ticks[c]) >= 2
        /\ cb_current_candles[c].low < cb_current_candles[c].high

RECURSIVE Total(_, _, _)
\* list[lo] + ... + list[hi]
Total(list, lo, hi) ==
    IF lo > hi THEN 0 ELSE list[lo] + Total(list, lo + 1, hi)

\* the series of a symbol, empty when the symbol has none
SeriesOf(code) == IF code \in DOMAIN cb_candles THEN cb_candles[code] ELSE <<>>

\* C16: get_recent_volume_avg and calculate_ma raise nothing and return 0
\* when fewer candles or prices exist than asked for, a symbol without a
\* series included; otherwise they return the mean of exactly the most
\* recent `periods` values.
C16_MeanOfMostRecent ==
    LET p == ind_call.periods
        res == ind_call.result
        MeanOrZero(list) ==
            /\ ~res.raised
            /\ Len(list) < p => res.num = 0
            /\ Len(list) >= p
                   => /\ res.den = p
                      /\ res.num = Total(list, Len(list) - p + 1, Len(list))
    IN  /\ ind_call.fn = "get_recent_volume_avg"
               => LET series == SeriesOf(ind_call.code)
                  IN  MeanOrZero([i \in 1..Len(series) |-> series[i].volume])
        /\ ind_call.fn = "calculate_ma" => MeanOrZero(ta_prices)

\* the volume average over fewer candles than the series has: the oldest
\* volume, which alone exceeds the returned sum, is not counted
C16_Witness ==
    /\ ind_call.fn = "get_recent_volume_avg"
    /\ ind_call.periods >= 2
    /\ Len(SeriesOf(ind_call.code)) > ind_call.periods
    /\ SeriesOf(ind_call.code)[1].volume > ind_call.result.num

\* the strength as C17 states it
ClaimedStrength(bidQty, askQty) ==
    IF askQty = 0 THEN Value(200, 1)
    ELSE IF bidQty = 0 THEN Value(0, 1)
    ELSE Value(bidQty * 100, askQty)

\* a / b <= c / d for positive b and d
QuotientLE(x, y) == x.num * y.den <= y.num * x.den

\* C17: with bidQty and askQty the sums of the first ten bid and ask level
\* quantities of the snapshot, the strength is 200 when askQty = 0, 0 when
\* askQty > 0 and bidQty = 0, and bidQty / askQty * 100 otherwise; for one
\* askQty > 0 it does not decrease when bidQty grows.
C17_StrengthRatio ==
    /\ ind_call.fn = "calculate"
           => LET levels == ind_call.asking_data
                  askQty == Total([i \in 1..BookLevels |->
                                IF i <= Len(levels.ask) THEN levels.ask[i]
                                ELSE 0], 1, BookLevels)
                  bidQty == Total([i \in 1..BookLevels |->
                                IF i <= Len(levels.bid) THEN levels.bid[i]
                                ELSE 0], 1, BookLevels)
                  claimed == ClaimedStrength(bidQty, askQty)
              IN  /\ ~ind_call.result.raised
                  /\ QuotientLE(ind_call.result, claimed)
                  /\ QuotientLE(claimed, ind_call.result)
    /\ \A code \in DOMAIN sc_strength_history :
           LET history == sc_strength_history[code]
           IN  \A i, j \in 1..Len(history) :
                   (/\ history[i].ask_vol = history[j].ask_vol
                    /\ history[i].ask_vol > 0
                    /\ history[i].bid_vol <= history[j].bid_vol)
                       => QuotientLE(history[i].strength, history[j].strength)

\* two snapshots of one positive ask quantity, the second with the larger
\* bid quantity and the larger strength, and one of them with an eleventh
\* level that is not counted
C17_Witness ==
    /\ ind_call.fn = "calculate"
    /\ Len(ind_call.asking_data.bid) > BookLevels
    /\ \E code \in DOMAIN sc_strength_history :
           LET history == sc_strength_history[code]
           IN  /\ Len(history) = 2
               /\ history[1].ask_vol = history[2].ask_vol
               /\ history[1].ask_vol > 0
               /\ history[1].bid_vol < history[2].bid_vol
               /\ ~QuotientLE(history[2].strength, history[1].strength)

\* the state check_entry_signal was called on
EntryCalled == ind_call.fn = "check_entry_signal"
EntryList == SeriesOf(ind_call.code)
EntryCurrent == EntryList[Len(EntryList)]
EntryHistory ==
    IF ind_call.code \in DOMAIN sc_strength_history
    THEN sc_strength_history[ind_call.code] ELSE <<>>

\* volume >= times / 1000 of the mean volume of candles lo..hi
VolumeAtLeast(times, lo, hi) ==
    EntryCurrent.volume * (hi - lo + 1) * 1000
        >= times * Total([i \in 1..Len(EntryList) |-> EntryList[i].volume],
                         lo, hi)

\* the last three strength samples are all at or above the threshold
StrengthAbove ==
    /\ Len(EntryHistory) >= 3
    /\ \A i \in (Len(EntryHistory) - 2)..Len(EntryHistory) :
           EntryHistory[i].strength.num
               >= MIN_STRENGTH_3BARS * EntryHistory[i].strength.den

\* body / range of the latest candle >= floor / 10
BodyAtLeast(floor) ==
    /\ EntryCurrent.high > EntryCurrent.low
    /\ (EntryCurrent.close - EntryCurrent.open) * 10
           >= floor * (EntryCurrent.high - EntryCurrent.low)

\* how many of the last three candles close above their open
GreensOfLastThree ==
    Cardinality({i \in (Len(EntryList) - 2)..Len(EntryList) :
                    EntryList[i].close > EntryList[i].open})

\* the close is above every high of the `back` candles before the latest
BreaksHighOf(back) ==
    \A i \in (Len(EntryList) - back)..(Len(EntryList) - 1) :
        EntryCurrent.close > EntryList[i].high

WithinBand ==
    ~Overheated([i \in 1..Len(EntryList) |-> EntryList[i].close],
                EntryCurrent.close)

\* C18: check_entry_signal returns true only if the volume of the latest
\* candle is at least VOLUME_SPIKE times the 20-candle average (of the 20
\* candles before it or of the latest 20), the last three strength samples
\* are at or above the threshold, the latest candle is bullish with a body
\* of at least MIN_CANDLE_BODY of its range, at least MIN_GREEN_CANDLES of
\* the last three candles are bullish, the close is above the highs of the
\* preceding candles of the breakout window, and the close is not more than
\* the tolerance above the upper band.
C18_EntryOnlyIfAllHold ==
    (EntryCalled /\ ind_call.result.ok)
        => /\ Len(EntryList) >= MinCandles
           /\ \/ VolumeAtLeast(VOLUME_SPIKE, Len(EntryList) - VolumePeriods,
                               Len(EntryList) - 1)
              \/ VolumeAtLeast(VOLUME_SPIKE,
                               Len(EntryList) - VolumePeriods + 1,
                               Len(EntryList))
           /\ StrengthAbove
           /\ EntryCurrent.close > EntryCurrent.open
           /\ BodyAtLeast(6)
           /\ GreensOfLastThree >= MIN_GREEN_CANDLES
           /\ BreaksHighOf(BreakoutWindow - 1)
           /\ WithinBand

\* C19: with at least 25 finalized candles, the latest volume at least 3
\* times the average of the 20 candles before it, the last three candles
\* bullish and the latest with a body of 0.8 of its range, the close above
\* the highs of the 24 candles before it and not beyond the band tolerance,
\* and the last three strength samples at or above 150, check_entry_signal
\* returns true with the entry reason.
C19_Scenario ==
    /\ EntryCalled
    /\ Len(EntryList) >= MinCandles
    /\ VolumeAtLeast(3000, Len(EntryList) - VolumePeriods, Len(EntryList) - 1)
    /\ GreensOfLastThree = 3
    /\ BodyAtLeast(8)
    /\ BreaksHighOf(BreakoutWindow)
    /\ WithinBand
    /\ StrengthAbove

C19_ScenarioEnters ==
    C19_Scenario
        => /\ ind_call.result.ok
           /\ ind_call.result.reason \in {"entry signal", "entry"}

\* the scenario has been put to advanced_scalping_realtime.py, with a
\* series of more than 25 candles whose volume 20 candles back is not the
\* flat one
C19_Witness ==
    /\ C19_Scenario
    /\ ind_call.realtime
    /\ Len(EntryList) > MinCandles
    /\ EntryList[Len(EntryList) - VolumePeriods].volume > 20
    /\ ind_call.result.ok

\* the gate of check_universe_filter was last called
UniverseCalled == ind_call.fn = "check_universe_filter"

\* the short average of the 15-minute closes was not above the long one at
\* one of the `bars` bars before the latest, or the long one was not yet
\* there
CrossWithin(prices, bars) ==
    \E j \in 1..bars :
        /\ j < Len(prices)
        /\ LET before == SubSeq(prices, 1, Len(prices) - j)
           IN  \/ Len(before) < LongMa15m
               \/ ~Greater(CalculateMa(before, ShortMa15m),
                           CalculateMa(before, LongMa15m))

StopCalled == pt_call.fn = "should_stop_trading"

RecordCalled == pt_call.fn = "record_trade"

\* the capital the tracker was made with
StartCapital == IF pt_impl = "asb" THEN START_CAPITAL ELSE pt.start_capital

\* the number of trades with a pnl below 0 at the end of trades
RECURSIVE LossesInARow(_)
LossesInARow(trades) ==
    IF trades = <<>> \/ trades[Len(trades)].profit >= 0 THEN 0
    ELSE 1 + LossesInARow(SubSeq(trades, 1, Len(trades) - 1))

\* the sum of the pnl of the first n trades that were recorded on a day of
\* days
PnlOf(trades, n, days) ==
    Sum([i \in 1..n |-> IF Date(trades[i].time) \in days
                        THEN trades[i].profit ELSE 0])

CapitalAfter(n) == StartCapital + PnlOf(pt.trades, n, Dates)

PeakAfter(n) == MaxOf([k \in 1..(n + 1) |-> CapitalAfter(k - 1)])

\* (peak - current) / peak after n trades is above MAX_DRAWDOWN
DrawdownAbove(n) ==
    /\ PeakAfter(n) > 0
    /\ (PeakAfter(n) - CapitalAfter(n)) * 1000 > MAX_DRAWDOWN * PeakAfter(n)

DailyLimitHit(t) ==
    PnlOf(pt.trades, Len(pt.trades), {Date(t)}) * 1000
        < -(StartCapital * DAILY_LOSS_LIMIT)

WinRateHit ==
    /\ Len(pt.trades) >= MIN_TRADES_WIN_RATE
    /\ Wins(pt.trades) * 1000 < MIN_WIN_RATE * Len(pt.trades)

\* the seconds between the last recorded trade and the call
SinceLastTrade ==
    (pt_call.time - pt.trades[Len(pt.trades)].time) * TickSeconds

\* C21: after CONSECUTIVE_LOSS losing trades in a row, should_stop_trading
\* returns true at every time less than COOLDOWN_SECONDS after the last
\* loss; at COOLDOWN_SECONDS or more after it, however long, it returns true
\* only if the daily loss limit, the win rate or a drawdown, now or earlier,
\* stops trading
C21_StreakStopsForCooldownOnly ==
    (StopCalled /\ LossesInARow(pt.trades) >= CONSECUTIVE_LOSS) =>
        /\ SinceLastTrade < COOLDOWN_SECONDS => pt_call.result
        /\ (/\ SinceLastTrade >= COOLDOWN_SECONDS
            /\ ~DailyLimitHit(pt_call.time)
            /\ ~WinRateHit
            /\ \A n \in 0..Len(pt.trades) : ~DrawdownAbove(n))
               => ~pt_call.result

\* the number of trades with a pnl of 0 or less at the end of trades
RECURSIVE NotWonInARow(_)
NotWonInARow(trades) ==
    IF trades = <<>> \/ trades[Len(trades)].profit > 0 THEN 0
    ELSE 1 + NotWonInARow(SubSeq(trades, 1, Len(trades) - 1))

\* the time of the latest trade whose pnl satisfies lost, NoTime without one
LatestTime(trades, lost(_)) ==
    LET those == {i \in 1..Len(trades) : lost(trades[i].profit)}
    IN  IF those = {} THEN NoTime
        ELSE trades[CHOOSE i \in those : \A j \in those : j <= i].time

Negative(pnl) == pnl < 0

NotPositive(pnl) == pnl <= 0

DayPnlIsSum ==
    \A d \in Dates :
        pt.daily_stats[d].profit = PnlOf(pt.trades, Len(pt.trades), {d})

\* C22 as stated: after every record_trade, consecutive_losses is the number
\* of trades with a pnl below 0 recorded since the latest winning trade,
\* last_loss_time is the time of the latest trade with a pnl below 0, and
\* the pnl of every day is the sum of the pnl of the trades of that day
C22_CountsLosingTrades ==
    RecordCalled =>
        /\ pt.consecutive_losses = LossesInARow(pt.trades)
        /\ pt.last_loss_time = LatestTime(pt.trades, Negative)
        /\ DayPnlIsSum

\* C22 as the code has it: after every record_trade, also one that raised,
\* consecutive_losses is the number of trades with a pnl of 0 or less
\* recorded since the latest trade with a pnl above 0, last_loss_time is the
\* time of the latest trade with a pnl of 0 or less, and the pnl of every
\* day is the sum of the pnl of the trades of that day
C22_CountsTradesNotWon ==
    RecordCalled =>
        /\ pt.consecutive_losses = NotWonInARow(pt.trades)
        /\ pt.last_loss_time = LatestTime(pt.trades, NotPositive)
        /\ DayPnlIsSum

\* record_trade has recorded a trade with a pnl of 0, the second after
\* a win that came after eight earlier trades, and the trades are of two
\* days
C22_Witness ==
    /\ RecordCalled
    /\ pt.consecutive_losses = 2
    /\ Len(pt.trades) > 10
    /\ pt.trades[Len(pt.trades)].profit = 0
    /\ \E i, j \in 1..Len(pt.trades) :
           Date(pt.trades[i].time) # Date(pt.trades[j].time)

\* C23: after each record_trade, whatever trades were recorded and also
\* when the first one is a loss, current_capital is the starting capital
\* plus the sum of the recorded pnl, peak_capital is the highest value
\* current_capital has had, which is current_capital or more, and the
\* drawdown (peak - current) / peak is computed without error and lies in
\* [0, 1]
C23_CapitalPeakDrawdown ==
    RecordCalled =>
        /\ ~pt_call.raised
        /\ pt.current_capital = CapitalAfter(Len(pt.trades))
        /\ pt.peak_capital = PeakAfter(Len(pt.trades))
        /\ pt.peak_capital >= pt.current_capital
        /\ pt.peak_capital > 0
        /\ pt.peak_capital - pt.current_capital <= pt.peak_capital
        /\ pt_impl = "v3" =>
               pt.current_drawdown
                   = InLowestTerms(pt.peak_capital - pt.current_capital,
                                   pt.peak_capital)

\* the streak of trades that were not won is at the limit and the call is
\* made less than COOLDOWN_SECONDS after the last of them
StreakInCooldown ==
    /\ NotWonInARow(pt.trades) >= CONSECUTIVE_LOSS
    /\ SinceLastTrade < COOLDOWN_SECONDS

\* C24: should_stop_trading returns true exactly when the loss streak is at
\* the limit and inside the cooldown, or today's pnl is below
\* -start_capital * DAILY_LOSS_LIMIT, or at least ten trades are recorded and
\* the win rate is below MIN_WIN_RATE, or the current drawdown
\* (peak - current) / peak is above MAX_DRAWDOWN; so it returns false again
\* once the capital has recovered and nothing else holds
C24_StopsExactlyOnItsConditions ==
    StopCalled =>
        (pt_call.result <=>
            \/ StreakInCooldown
            \/ DailyLimitHit(pt_call.time)
            \/ WinRateHit
            \/ DrawdownAbove(Len(pt.trades)))

(***************************************************************************)
(* Properties of the streaming connections                                 *)
(***************************************************************************)
Client == ws_impl \in {"rm", "rt"}

Connected == ws.pc \in {"resubscribe", "resubscribe sleep", "receive"}

\* C25: in the reconnect loop of the two clients the failed attempts in a
\* row and the attempt counter never exceed max_reconnect, a connection
\* attempt that follows a lost or failed connection is made only after the
\* wait of reconnect_delay, and the attempt counter is 0 while a connection
\* stands
C25_DelayBeforeEveryRetry ==
    Client =>
        /\ ws.failed <= max_reconnect
        /\ ws.reconnect_count <= max_reconnect
        /\ ws.pc = "connect" => ws.attempt_after \notin {"lost", "failed"}
        /\ Connected => ws.reconnect_count = 0

\* C26: once the attempts are used up (max_reconnect failures in a row in
\* the two clients, max_retries in the notifier) the connection task has
\* ended with an error that its owner receives; it has not returned, and
\* it does not go on running, with the failure only written to the log
C26_ExhaustionReachesTheOwner == ws.exhausted => ws.task = "raised"

\* the requests resubscribe has sent on the connection that stands
ResubscribeRequests ==
    SelectSeq(ws.sent, LAMBDA request : request.by = "resubscribe")

\* no other task has had a request sent on the connection that stands
NoCallerRequest == \A k \in 1..Len(ws.sent) : ws.sent[k].by = "resubscribe"

NoDuplicates(list) ==
    \A j, k \in 1..Len(list) : list[j] = list[k] => j = k

\* C27: on a connection made with k registered pairs, and with no request
\* of another task, resubscribe sends the k pairs in the order of their
\* registration, one request each and never more than k, it has sent all
\* k when it has returned, and the registry stays the list of the same k
\* pairs, none of them twice
C27_ResubscribesEachPairOnce ==
    Client /\ Connected /\ NoCallerRequest =>
        /\ Len(ResubscribeRequests) <= Len(ws.at_connect)
        /\ \A j \in 1..Len(ResubscribeRequests) :
               j <= Len(ws.at_connect)
                   => ResubscribeRequests[j].pair = ws.at_connect[j]
        /\ ws.pc = "receive"
               => Len(ResubscribeRequests) = Len(ws.at_connect)
        /\ ws.subscriptions = ws.at_connect
        /\ NoDuplicates(ws.subscriptions)

\* a request for the pair has been sent on the connection that stands
SentOnConnection(pair) == \E k \in 1..Len(ws.sent) : ws.sent[k].pair = pair

\* C28: a call of subscribe for a pair that is registered, and whose
\* request has been sent on the connection that stands, changes nothing:
\* the registry stays as it is, with no pair twice, and no request is sent
C28_SubscribeIsIdempotent ==
    [][(/\ ws_call'.n = ws_call.n + 1
        /\ Contains(ws.subscriptions, ws_call'.pair)
        /\ SentOnConnection(ws_call'.pair)
        /\ ws.open)
           => /\ ws'.subscriptions = ws.subscriptions
              /\ NoDuplicates(ws'.subscriptions)
              /\ ws'.sent = ws.sent]_vars

\* C29: while resubscribe is at work on a new connection (here: in the
\* sleep between two of its requests) a call of subscribe by another task
\* has no request sent and adds nothing to the registry
C29_NoSubscribeDuringResubscribe ==
    [][(ws_call'.n = ws_call.n + 1 /\ ws.pc = "resubscribe sleep")
           => /\ ws'.sent = ws.sent
              /\ ws'.subscriptions = ws.subscriptions]_vars

(***************************************************************************)
(* Properties of the shutdown                                              *)
(***************************************************************************)
\* a step of the scan loop that sends a buy order
BuySent ==
    /\ atr_batch' # atr_batch
    /\ \E k \in 1..Len(atr_sent') : atr_sent'[k].side = "buy"

\* C30: once shutdown() has set is_running to False no step sends a buy
\* order and no position is added, also not by a scan loop that is inside
\* a batch; and when main has ended every position that was open when
\* shutdown started has been taken by a pass of a shutdown loop
C30_NoEntryAfterShutdown ==
    [][/\ sd.started => /\ ~BuySent
                        /\ DOMAIN atr_positions' \subseteq DOMAIN atr_positions
       /\ sd'.main = "done" => sd'.open_at_start \subseteq sd'.taken]_vars

(***************************************************************************)
(* Properties of stop()                                                    *)
(***************************************************************************)
\* stop() has been called on a started client
Stopped == Client /\ ws.task # "not started" /\ ~ws.is_running

\* C31: after stop() the connection is closed and connect has returned at
\* some later time, whatever the server does with the connection
C31_StopEndsTheConnection ==
    Stopped ~> (ws.pc = "done" /\ ~ws.open)

(***************************************************************************)
(* Properties of the candle builder over whole tick sequences              *)
(***************************************************************************)
\* the volumes of the candles of a series
VolumesOf(series) == [k \in 1..Len(series) |-> series[k].volume]

\* the volume the builder holds for a symbol: its series and its open candle
HeldVolume(code) ==
    Total(VolumesOf(SeriesOf(code)), 1, Len(SeriesOf(code)))
        + IF code \in DOMAIN cb_current_candles
          THEN cb_current_candles[code].volume ELSE 0

\* C38: the builder starts with no volume, and every add_tick adds the
\* volume of its tick to the volume held for its symbol and leaves the
\* volume held for the other symbols as it is, as long as the series of the
\* symbol has fewer than DequeMaxLen candles (the deque has dropped none)
C38_VolumeIsConserved ==
    [][cb_left' < cb_left =>
           \A code \in CBSymbols :
               Len(SeriesOf(code)') < DequeMaxLen
                   => HeldVolume(code)'
                          = HeldVolume(code)
                                + IF cb_out'.code = code THEN cb_out'.volume
                                  ELSE 0]_vars

\* a symbol with a finalized candle of two ticks and an open candle, while
\* the other symbol has a tick of its own
C38_Witness ==
    \E code \in CBSymbols :
        /\ Len(SeriesOf(code)) = 1
        /\ SeriesOf(code)[1].volume > cb_out.volume
        /\ Len(cb_ticks[code]) = 1
        /\ HeldVolume(code) = SeriesOf(code)[1].volume
                                  + Volume(cb_ticks[code])
        /\ \E other \in CBSymbols \ {code} : HeldVolume(other) > 0

\* the periodStart values of a symbol: its series, then its open candle
StartsOf(code) ==
    [k \in 1..Len(SeriesOf(code)) |-> SeriesOf(code)[k].time]
        \o IF code \in DOMAIN cb_current_candles
           THEN <<cb_current_candles[code].time>> ELSE <<>>

\* C39: for every symbol the periodStart values of the candles of the
\* series and of the open candle are strictly increasing, so no two candles
\* of a symbol have the same periodStart, whatever the order of the
\* timestamps of the ticks
C39_StartsIncrease ==
    \A code \in CBSymbols :
        \A j, k \in 1..Len(StartsOf(code)) :
            j < k => StartsOf(code)[j] < StartsOf(code)[k]

(***************************************************************************)
(* Properties of the duplicate-entry prevention of the webhook bot         *)
(***************************************************************************)
\* a buy signal for code that finds a price, has its order accepted and
\* leaves an active position for code
BuySignalOpens(code) ==
    /\ \E price \in TVEntryPrices : TVProcessBuySignal(code, price, "ok")
    /\ TVStatus(tv_positions', code) = "active"
    /\ tv_positions' # tv_positions

\* C40: while a buy signal can be handled, a signal for a symbol is turned
\* away exactly when the symbol has an active or a partial_sold position: a
\* signal for a symbol with no position or with a closed position can
\* have its order accepted and open a new active position
C40_ClosedSymbolCanReenter ==
    \A code \in TVSymbols :
        (tv_pc = "sleep" /\ tv_signals > 0)
            => (ENABLED BuySignalOpens(code)
                    <=> TVStatus(tv_positions, code)
                            \notin {"active", "partial_sold"})


(***************************************************************************)
(* Properties of the trailing stop of ATR_main.py                          *)
(***************************************************************************)
\* the trailing stop of pos has been active at a poll: the peak is a price
\* whose return reached TRAILING_ACTIVATION
ATR_TrailingActive(pos) ==
    RateGE(pos.highest_price, pos.entry_price, Config_TRAILING_ACTIVATION)

\* highest_price * trailing_rate as _monitor_position computed it at the poll
\* that set the peak, in thousandths of a won
ATR_TrailingStop(pos) ==
    pos.highest_price *
        (IF RateGE(pos.highest_price, pos.entry_price,
                   Config_TRAILING_THRESHOLD)
         THEN Config_TRAILING_RATE_HIGH
         ELSE Config_TRAILING_RATE_LOW)

\* C33: once the trailing stop of a position has been active, a poll of the
\* position at a price at or below the stop that was computed at its peak
\* fires the exit (a sell order is sent, or the position is removed in
\* dry-run mode): the stop is neither lowered nor disarmed by a fall of the
\* price or of the current return.
C33_TrailingStopRatchets ==
    [][\A code \in DOMAIN atr_positions :
          ( /\ ATR_TrailingActive(atr_positions[code])
            /\ atr_call'.op = "monitor"
            /\ atr_call'.code = code
            /\ atr_call'.price * 1000
                   <= ATR_TrailingStop(atr_positions[code]) )
          => \/ atr_sent' # <<>>
             \/ code \notin DOMAIN atr_positions']_vars

(***************************************************************************)
(* Properties of the position limit                                        *)
(***************************************************************************)
\* C36: the number of open positions of ATR_main.py never exceeds
\* MAX_POSITIONS, also when several codes of one batch give an entry signal.
C36_AtMostMaxPositions ==
    Cardinality(DOMAIN atr_positions) <= Config_MAX_POSITIONS


(***************************************************************************)
(* Properties of the buy orders of the condition search system             *)
(***************************************************************************)
\* C37: a cycle of run_trading_loop sends no buy order for a symbol the
\* account already holds, whether or not the positions map has been
\* refreshed from the balance since the symbol was bought.
C37_NoSecondBuy ==
    [][kis_now' # kis_now
          => \A o \in kis_sent' :
                 o.side = "buy" => o.code \notin DOMAIN kis_holdings]_vars


(***************************************************************************)
(* Properties of the entry and the peak of a position of ATR_main.py       *)
(***************************************************************************)
\* C34: while a position stays open its entry_price never changes and its
\* highest_price is written only by a poll of _monitor_position, which sets
\* it to the larger of the old peak and the polled price; so the peak never
\* decreases and no other component writes the two fields.
C34_PeakAndEntryAreStable ==
    [][\A code \in DOMAIN atr_positions \cap DOMAIN atr_positions' :
          LET old == atr_positions[code]
              new == atr_positions'[code]
          IN  /\ new.entry_price = old.entry_price
              /\ new.highest_price =
                     IF atr_call'.op = "monitor" /\ atr_call'.code = code
                     THEN Max(old.highest_price, atr_call'.price)
                     ELSE old.highest_price]_vars


(***************************************************************************)
(* Properties of the reads of the polling thread                           *)
(***************************************************************************)
\* C32: a call of check_entry_signal that has made its reads of the candle
\* series has read one state of the series: the candles its average volume
\* was taken over are the newest VolumePeriods candles of the list its
\* latest candle was taken from.
C32_ReadsAreOfOneInstant ==
    rc.read => rc.avg_list = LastN(rc.candles, VolumePeriods)

(***************************************************************************)
(* Properties of the emergency exit                                        *)
(***************************************************************************)
\* the price the polls sampled EMERGENCY_SECONDS before the last poll
EMReference ==
    LET n == Len(em.samples)
        k == EMERGENCY_SECONDS \div PollSeconds
    IN  IF n > k THEN em.samples[n - k] ELSE NoPrice

\* C35: a poll in which no earlier exit test fires exits with the reason
\* "emergency exit" exactly when its price is at least EMERGENCY_DROP below
\* the price sampled EMERGENCY_SECONDS before it.
C35_EmergencyComparesOverTheWindow ==
    (EMReference # NoPrice /\ em.last.reason \in {"", "emergency exit"})
        => (em.last.reason = "emergency exit"
               <=> DropGE(EMReference, em.last.cp, EMERGENCY_DROP))

====
